---- MODULE Spec2Model ----
(***************************************************************************)
(* A model of 4subs: the SQLite repository (media_items,                   *)
(* subtitle_candidates, subtitle_files, provider_credentials, app_settings,*)
(* jobs), the scan job, the credential vault and the fan-out subtitle      *)
(* search of the HTTP server.                                              *)
(*                                                                         *)
(* Go strings that the code trims, lower-cases or searches are sequences   *)
(* of one-character strings; map keys and provider names, which the code   *)
(* only compares, are TLA+ strings.  An optional number (a nil pointer, a    *)
(* NULL column) is a sequence of length 0 or 1.                            *)
(*                                                                         *)
(* Spec is the server.  TxSpec runs concurrent repository calls statement  *)
(* by statement on the one database connection; ScanSpec runs scanner.Run  *)
(* over lists of roots of a small file system; ParseSpec, ScoreSpec and    *)
(* VaultSpec apply parseMetadata, ScoreByLanguage and the credential       *)
(* encryption to bounded sets of inputs.                                   *)
(* ProviderSpec applies the providers' Search to bounded inputs;          *)
(* SettingsSpec and CredentialSpec serve the settings and credential       *)
(* handlers across restarts; JobSpec runs scan jobs step by step and       *)
(* JobFairSpec adds the scheduling of their goroutines; SearchFairSpec is  *)
(* one fan-out search under fair scheduling; BusSpec is the event bus with *)
(* concurrent publishers and subscribers.                                  *)
(***************************************************************************)
EXTENDS Integers, Sequences, FiniteSets, TLC

\* ---------------------------------------------------------------- bounds
\* video files the scanner can find under MEDIA_PATHS (paths 1..NumFiles)
NumFiles == 2
\* items an external catalog sends back for one query
MaxItems == 2
\* HTTP requests (scan, search, credential save, settings update) and
\* restarts served in one behaviour
MaxRequests == 2
\* goroutines that call the repository at the same time
NumCallers == 2
\* entries of the MEDIA_PATHS list given to one scan
MaxRoots == 4
\* pieces (words, markers, years) a file name is made of
MaxTokens == 3
\* entries of a language priority list
MaxPriority == 3
\* the largest positive result-count cap of a query
MaxLimit == 2
\* clients of GET /events
NumSubscribers == 2
\* goroutines that call EventBus.Publish
NumPublishers == 2
\* calls of EventBus.Publish followed in one behaviour
MaxEvents == 3

\* ------------------------------------------------------------- constants
\* provider.SearchInput.Limit set by handleSearchSubtitles
SearchLimit == 20
\* capacity of resultCh
ResultChCap == 2
\* capacity of the channel Subscribe makes
ClientChanCap == 8

\* --------------------------------------------------------------- strings
SP == " "

\* strings.TrimSpace, leading part
RECURSIVE TrimLeft(_)
TrimLeft(s) ==
    IF s # <<>> /\ Head(s) = SP THEN TrimLeft(Tail(s)) ELSE s

\* strings.TrimSpace, trailing part
RECURSIVE TrimRight(_)
TrimRight(s) ==
    IF s # <<>> /\ s[Len(s)] = SP THEN TrimRight(SubSeq(s, 1, Len(s) - 1)) ELSE s

TrimSpace(s) == TrimRight(TrimLeft(s))

LowerOf(c) ==
    CASE c = "E" -> "e"
      [] c = "N" -> "n"
      [] c = "Z" -> "z"
      [] c = "H" -> "h"
      [] c = "C" -> "c"
      [] c = "S" -> "s"
      [] OTHER -> c

ToLower(s) == [i \in 1..Len(s) |-> LowerOf(s[i])]

toLowerTrim(s) == ToLower(TrimSpace(s))

\* strings.Contains
Contains(s, t) ==
    \E i \in 1..(Len(s) - Len(t) + 1) : SubSeq(s, i, i + Len(t) - 1) = t

\* the first n elements of a sequence (a Go slice s[:n], n <= len(s))
Take(s, n) == SubSeq(s, 1, n)

Range(s) == {s[i] : i \in 1..Len(s)}

\* ------------------------------------------------------- language scoring
\* a CJK character of the source is one element named by its code point
L_bilingual == <<"b", "i", "l", "i", "n", "g", "u", "a", "l">>
L_zh_cn == <<"z", "h", "-", "c", "n">>
L_zh_tw == <<"z", "h", "-", "t", "w">>
L_en == <<"e", "n">>
L_unknown == <<"u", "n", "k", "n", "o", "w", "n">>
BilingualTerms ==
    << <<"U53CC", "U8BED">>,
       <<"b", "i", "l", "i", "n", "g", "u", "a", "l">>,
       <<"c", "h", "s", "&", "e", "n", "g">>,
       <<"z", "h", "-", "e", "n">>,
       <<"e", "n", "-", "z", "h">>,
       <<"d", "u", "a", "l">> >>
SimplifiedTerms ==
    << <<"U7B80">>,
       <<"z", "h", "-", "c", "n">>,
       <<"c", "h", "s">>,
       <<"s", "i", "m", "p", "l", "i", "f", "i", "e", "d">> >>
TraditionalTerms ==
    << <<"U7E41">>,
       <<"z", "h", "-", "t", "w">>,
       <<"c", "h", "t">>,
       <<"t", "r", "a", "d", "i", "t", "i", "o", "n", "a", "l">> >>
EnglishTerms ==
    << <<"e", "n", "g", "l", "i", "s", "h">>,
       <<"e", "n", "g">>,
       <<"e", "n">> >>

containsAny(value, terms) ==
    \E i \in 1..Len(terms) :
        terms[i] # <<>> /\ value # <<>> /\ Contains(value, toLowerTrim(terms[i]))

\* the canonical code of provider.NormalizeLanguage (its second result, the
\* display text, is the raw label and is not stored in this model)
NormalizeLanguage(raw) ==
    LET r == toLowerTrim(raw) IN
    CASE containsAny(r, BilingualTerms) -> L_bilingual
      [] ~containsAny(r, BilingualTerms) /\ containsAny(r, SimplifiedTerms) -> L_zh_cn
      [] ~containsAny(r, BilingualTerms) /\ ~containsAny(r, SimplifiedTerms)
            /\ containsAny(r, TraditionalTerms) -> L_zh_tw
      [] ~containsAny(r, BilingualTerms) /\ ~containsAny(r, SimplifiedTerms)
            /\ ~containsAny(r, TraditionalTerms) /\ containsAny(r, EnglishTerms) -> L_en
      [] OTHER -> IF r = <<>> THEN L_unknown ELSE r

\* fault injection: the loop that keeps the last entry equal to lang
LastMatch(priority, lang, i) ==
    LET at == {k \in i..Len(priority) :
                 toLowerTrim(priority[k]) = toLowerTrim(lang)}
    IN IF at = {} THEN 0 ELSE CHOOSE k \in at : \A j \in at : j <= k

\* fault injection: a score that grows with the position in the list
ScoreByPosition(priority, lang) ==
    LET at == {k \in 1..Len(priority) :
                 toLowerTrim(priority[k]) = toLowerTrim(lang)}
    IN IF at # {} THEN (CHOOSE k \in at : \A j \in at : k <= j) * 10
       ELSE IF toLowerTrim(lang) = <<"u", "n", "k", "n", "o", "w", "n">>
                 \/ toLowerTrim(lang) = <<>> THEN 1
       ELSE 3

\* index (1-based) of the first entry of priority equal to lang, 0 when none
RECURSIVE FirstMatch(_, _, _)
FirstMatch(priority, lang, i) ==
    IF i > Len(priority) THEN 0
    ELSE IF toLowerTrim(priority[i]) = toLowerTrim(lang) THEN i
    ELSE FirstMatch(priority, lang, i + 1)

ScoreByLanguage(priority, lang) ==
    LET k == FirstMatch(priority, lang, 1) IN
    IF k > 0 THEN (Len(priority) - (k - 1)) * 10
    ELSE IF toLowerTrim(lang) = L_unknown \/ toLowerTrim(lang) = <<>> THEN 1
    ELSE 3

\* ------------------------------------------------------ credential vault
\* A byte string is a text or the JSON document of a string map
\* (json.Marshal of a map[string]string).
Text(t) == [kind |-> "text", text |-> t, obj |-> <<>>]

jsonMarshal(m) == [kind |-> "json", text |-> <<>>, obj |-> m]

\* string(bytes): the characters of a text; a JSON document starts with "{"
StringOf(bytes) == IF bytes.kind = "text" THEN bytes.text ELSE <<"{", "}">>

EmptyMap == [k \in {} |-> <<>>]

\* a fallible result: err = "" is Go's nil error
Ok(v) == [err |-> "", val |-> v]

Fail(msg) == [err |-> msg, val |-> <<>>]

\* m[k] of a Go map: the zero value "" for a missing key
MapGet(m, k) == IF k \in DOMAIN m THEN m[k] ELSE <<>>

\* base64.StdEncoding
EncodeToString(bytes) == [b64 |-> bytes]

\* fault injection: a decoder that rejects every input
DecodeNothing(s) == [err |-> "illegal base64 data", val |-> <<>>]

DecodeString(s) ==
    IF "b64" \in DOMAIN s THEN Ok(s.b64) ELSE Fail("illegal base64 data")

\* fault injection: a key that does not depend on the secret
FixedKey(secret) == [sha256 |-> <<>>]

\* sha256.Sum256([]byte(secret)): distinct secrets give distinct keys
Sum256(secret) == [sha256 |-> secret]

\* gcm.Seal(nonce, nonce, plaintext, nil): the nonce followed by the
\* authenticated ciphertext of plaintext under key and nonce
Seal(key, nonce, plaintext) ==
    [nonce |-> nonce, ct |-> [key |-> key, nonce |-> nonce, pt |-> plaintext]]

\* fault injection: decryption that does not authenticate
OpenUnchecked(key, nonce, payload) == Ok(payload.pt)

\* gcm.Open(nil, nonce, payload, nil): authentication fails under any other
\* key or nonce
Open(key, nonce, payload) ==
    IF payload.key = key /\ payload.nonce = nonce
    THEN Ok(payload.pt)
    ELSE Fail("cipher: message authentication failed")

\* A stored blob is a prefix ("", "plain:" or "enc:") and what follows it.
Blob(prefix, body) == [prefix |-> prefix, body |-> body]

\* a blob that is a bare string: "", a legacy token, ...
RawBlob(t) == Blob("", Text(t))

encrypt(plaintext, secret, nonce) ==
    IF TrimSpace(secret) = <<>>
    THEN Blob("plain:", EncodeToString(plaintext))
    ELSE Blob("enc:", EncodeToString(Seal(Sum256(secret), nonce, plaintext)))

decrypt(ciphertext, secret) ==
    IF TrimSpace(secret) = <<>> THEN Fail("app secret is empty")
    ELSE LET raw == DecodeString(ciphertext) IN
         IF raw.err # "" THEN raw
         ELSE IF "nonce" \notin DOMAIN raw.val THEN Fail("ciphertext too short")
         ELSE Open(Sum256(secret), raw.val.nonce, raw.val.ct)

\* the closure parseJSON of parseCredentialBlob
parseJSON(raw) ==
    IF raw.kind = "json" /\ DOMAIN raw.obj # {}
    THEN Ok(raw.obj)
    ELSE Fail("credential json invalid")

\* fault injection: the blob taken as stored, not trimmed
NoTrimBlob(blob) == blob

\* strings.TrimSpace(blob): only a bare string has surrounding blanks
TrimBlob(blob) ==
    IF blob.prefix = "" /\ blob.body.kind = "text"
    THEN RawBlob(TrimSpace(blob.body.text))
    ELSE blob

parseCredentialBlob(blob, secret, providerName) ==
    LET trimmed == TrimBlob(blob) IN
    IF trimmed = RawBlob(<<>>) THEN Ok(EmptyMap)
    ELSE IF trimmed.prefix = "plain:" THEN
        LET payload == DecodeString(trimmed.body) IN
        IF payload.err # "" THEN payload
        ELSE IF parseJSON(payload.val).err = "" THEN parseJSON(payload.val)
        ELSE IF providerName = "assrt"
             THEN Ok([k \in {"token"} |-> StringOf(payload.val)])
        ELSE Fail("invalid plain credential payload")
    ELSE IF trimmed.prefix = "enc:" THEN
        LET payload == decrypt(trimmed.body, secret) IN
        IF payload.err # "" THEN payload
        ELSE IF parseJSON(payload.val).err = "" THEN parseJSON(payload.val)
        ELSE Fail("invalid encrypted credential payload")
    ELSE IF trimmed.body.kind = "json" /\ parseJSON(trimmed.body).err = ""
        THEN parseJSON(trimmed.body)
    ELSE IF providerName = "assrt"
        THEN Ok([k \in {"token"} |-> StringOf(trimmed.body)])
    ELSE Fail("unsupported credential format")

\* ------------------------------------------------------------ repository
Providers == <<"assrt", "opensubtitles">>

ProviderNames == Range(Providers)

Nil == <<>>

Some(n) == <<n>>

\* What scanner.Run records for the video file at path p (lines 85-95): the
\* result of parseMetadata on the file's name.  File 1 is ".mkv" (an empty
\* name, so an empty title), file 3 is "a.s1e2.mkv", every other file is
\* "a.mkv".  Paths are numbered in their sort order.
FileMeta(p) ==
    CASE p = 1 -> [media_type |-> "movie", title |-> <<>>,
                   year |-> Nil, season |-> Nil, episode |-> Nil]
      [] p = 3 -> [media_type |-> "episode", title |-> <<"a">>,
                   year |-> Nil, season |-> Some(1), episode |-> Some(2)]
      [] OTHER -> [media_type |-> "movie", title |-> <<"a">>,
                   year |-> Nil, season |-> Nil, episode |-> Nil]

\* the model.MediaItem scanner.Run appends for path p
ScanItem(p, hasSubtitle) ==
    [media_type |-> FileMeta(p).media_type, title |-> FileMeta(p).title,
     year |-> FileMeta(p).year, season |-> FileMeta(p).season,
     episode |-> FileMeta(p).episode, file_path |-> p,
     has_subtitle |-> hasSubtitle]

\* scanner.Run: the files found (a set of paths, each seen once), with the
\* sidecar flag of each, sorted by path
RECURSIVE RunItems(_, _, _)
RunItems(found, withSub, p) ==
    IF p > NumFiles THEN <<>>
    ELSE IF p \in found
         THEN <<ScanItem(p, p \in withSub)>> \o RunItems(found, withSub, p + 1)
         ELSE RunItems(found, withSub, p + 1)

Paths(rows) == {rows[i].file_path : i \in 1..Len(rows)}

\* fault injection: the existence check that never finds the row
mediaNeverExists(rows, filePath) == FALSE

mediaExistsByPathTx(rows, filePath) == filePath \in Paths(rows)

\* fault injection: INSERT INTO media_items without the ON CONFLICT clause
\* on a table without the UNIQUE constraint
InsertMedia(rows, item) ==
    Append(rows, [id |-> Len(rows) + 1, media_type |-> item.media_type,
                  title |-> item.title, year |-> item.year,
                  season |-> item.season, episode |-> item.episode,
                  file_path |-> item.file_path,
                  has_subtitle |-> item.has_subtitle])

\* INSERT INTO media_items ... ON CONFLICT(file_path) DO UPDATE SET ...
\* (id INTEGER PRIMARY KEY AUTOINCREMENT, file_path UNIQUE)
InsertOrUpdateMedia(rows, item) ==
    IF \E i \in 1..Len(rows) : rows[i].file_path = item.file_path
    THEN [i \in 1..Len(rows) |->
            IF rows[i].file_path = item.file_path
            THEN [id |-> rows[i].id, media_type |-> item.media_type,
                  title |-> item.title, year |-> item.year,
                  season |-> item.season, episode |-> item.episode,
                  file_path |-> rows[i].file_path,
                  has_subtitle |-> item.has_subtitle]
            ELSE rows[i]]
    ELSE Append(rows, [id |-> Len(rows) + 1, media_type |-> item.media_type,
                       title |-> item.title, year |-> item.year,
                       season |-> item.season, episode |-> item.episode,
                       file_path |-> item.file_path,
                       has_subtitle |-> item.has_subtitle])

\* the loop of UpsertMediaItems; RowsAffected is 1 for an insert and for an
\* update
RECURSIVE UpsertLoop(_, _, _, _)
UpsertLoop(rows, items, inserted, updated) ==
    IF items = <<>>
    THEN [err |-> "", media |-> rows, inserted |-> inserted, updated |-> updated]
    ELSE LET item == Head(items)
             existedBefore == mediaExistsByPathTx(rows, item.file_path)
         IN UpsertLoop(InsertOrUpdateMedia(rows, item), Tail(items),
                       IF existedBefore THEN inserted ELSE inserted + 1,
                       IF existedBefore THEN updated + 1 ELSE updated)

\* ctxDone: the context is cancelled or past its deadline, so BeginTx fails
UpsertMediaItems(rows, items, ctxDone) ==
    IF ctxDone
    THEN [err |-> "context done", media |-> rows, inserted |-> 0, updated |-> 0]
    ELSE UpsertLoop(rows, items, 0, 0)

GetMediaByID(rows, mediaID, ctxDone) ==
    IF ctxDone THEN Fail("context done")
    ELSE IF \E i \in 1..Len(rows) : rows[i].id = mediaID
    THEN Ok(rows[CHOOSE i \in 1..Len(rows) : rows[i].id = mediaID])
    ELSE Fail("sql: no rows in result set")

\* the rows of subtitle_candidates of one media item, in insertion order
CandidatesOf(table, mediaID) ==
    SelectSeq(table, LAMBDA row : row.media_item_id = mediaID)

\* fault injection: ReplaceSubtitleCandidates without its DELETE
KeepCandidates(table, mediaID) == table

\* fault injection: a DELETE without its WHERE clause
DeleteAllCandidates(table, mediaID) == <<>>

\* DELETE FROM subtitle_candidates WHERE media_item_id = ?
DeleteCandidates(table, mediaID) ==
    SelectSeq(table, LAMBDA row : row.media_item_id # mediaID)

\* INSERT INTO subtitle_candidates, one row per candidate, under mediaID
\* (id INTEGER PRIMARY KEY AUTOINCREMENT: seq is the largest id given out)
InsertCandidates(table, seq, mediaID, candidates) ==
    table \o [i \in 1..Len(candidates) |->
                [id |-> seq + i, media_item_id |-> mediaID,
                 provider_name |-> candidates[i].provider_name,
                 candidate_id |-> candidates[i].candidate_id,
                 language |-> candidates[i].language,
                 score |-> candidates[i].score]]

ReplaceSubtitleCandidates(table, seq, mediaID, candidates, ctxDone) ==
    IF ctxDone THEN [err |-> "context done", table |-> table, seq |-> seq]
    ELSE [err |-> "",
          table |-> InsertCandidates(DeleteCandidates(table, mediaID), seq,
                                     mediaID, candidates),
          seq |-> seq + Len(candidates)]

\* SaveSubtitleFile: the subtitle_files row needs its media item (FOREIGN
\* KEY, foreign_keys = ON); then has_subtitle = 1
SaveSubtitleFile(rows, files, mediaID, providerName) ==
    IF ~\E i \in 1..Len(rows) : rows[i].id = mediaID
    THEN [err |-> "FOREIGN KEY constraint failed", media |-> rows, files |-> files]
    ELSE [err |-> "",
          media |-> [i \in 1..Len(rows) |->
                        IF rows[i].id = mediaID
                        THEN [rows[i] EXCEPT !.has_subtitle = TRUE]
                        ELSE rows[i]],
          files |-> Append(files, [media_item_id |-> mediaID,
                                   provider_name |-> providerName])]

\* UPDATE provider_credentials SET secret_blob = ? WHERE name = ?
SaveProviderCredential(table, name, blob) ==
    [n \in DOMAIN table |-> IF n = name THEN blob ELSE table[n]]

SaveProviderCredentialJSON(table, name, payload) ==
    SaveProviderCredential(table, name, Blob("", jsonMarshal(payload)))

GetProviderCredentialBlob(table, name, ctxDone) ==
    IF ctxDone THEN Fail("context done")
    ELSE IF name \in DOMAIN table THEN Ok(table[name])
    ELSE Fail("sql: no rows in result set")

\* ------------------------------------------------------------- providers
\* What the external catalog of a provider holds for any query, best match
\* first; a response is a prefix of it.  assrt items carry lang.desc and
\* vote_score; opensubtitles items carry language, download_count and
\* from_trusted.
CatalogItem(name, i) ==
    IF name = "assrt"
    THEN CASE i = 1 -> [id |-> i, lang |-> <<"e", "n", "g">>, vote_score |-> 0]
           [] i = 2 -> [id |-> i, lang |-> <<"C", "H", "S">>, vote_score |-> 0]
           [] OTHER -> [id |-> i, lang |-> <<>>, vote_score |-> 2]
    ELSE CASE i = 1 -> [id |-> i, lang |-> <<"e", "n">>,
                        download_count |-> 0, from_trusted |-> FALSE]
           [] i = 2 -> [id |-> i, lang |-> <<"e", "n">>,
                        download_count |-> 200, from_trusted |-> TRUE]
           [] OTHER -> [id |-> i, lang |-> <<"z", "h", "-", "t", "w">>,
                        download_count |-> 0, from_trusted |-> FALSE]

\* what httpClient.Do and the decoding of the body can end in: an error
\* (transport, the context's deadline, a non-200 status, a malformed body)
\* or the catalog's first n items
HttpOutcomes(name) ==
    {Fail("transport error")}
      \cup {Ok([i \in 1..n |-> CatalogItem(name, i)]) : n \in 0..MaxItems}

\* the query text q of assrt.Client.Search; the season/episode and year
\* parts are single elements, q is only tested for emptiness
assrtQuery(input) ==
    LET q1 == TrimSpace(input.Title)
        q2 == IF input.MediaType = "episode" /\ input.Season # Nil
                    /\ input.Episode # Nil
              THEN q1 \o <<SP, "SxxEyy">> ELSE q1
    IN IF input.Year # Nil THEN q2 \o <<SP, "yyyy">> ELSE q2

assrtSearch(priority, credential, input, http) ==
    IF TrimSpace(MapGet(credential, "token")) = <<>>
    THEN Fail("assrt token is empty")
    ELSE IF assrtQuery(input) = <<>> THEN Fail("empty search query")
    ELSE IF http.err # "" THEN http
    ELSE Ok([i \in 1..Len(http.val) |->
               [media_item_id |-> input.MediaID,
                provider_name |-> "assrt",
                candidate_id |-> http.val[i].id,
                language |-> NormalizeLanguage(http.val[i].lang),
                score |-> ScoreByLanguage(priority,
                              NormalizeLanguage(http.val[i].lang))
                          + http.val[i].vote_score]])

\* the query text q of opensubtitles.Client.Search (the year is a separate
\* request parameter)
opensubtitlesQuery(input) ==
    LET q1 == TrimSpace(input.Title) IN
    IF input.MediaType = "episode" /\ input.Season # Nil /\ input.Episode # Nil
    THEN q1 \o <<SP, "SxxEyy">> ELSE q1

\* download_count is a multiple of 200 in CatalogItem, so the division of
\* float64(DownloadCount)/200.0 is exact
opensubtitlesSearch(priority, credential, input, http) ==
    IF TrimSpace(MapGet(credential, "api_key")) = <<>>
    THEN Fail("opensubtitles api_key is empty")
    ELSE IF opensubtitlesQuery(input) = <<>> THEN Fail("empty search query")
    ELSE IF http.err # "" THEN http
    ELSE LET limit == IF input.Limit <= 0 THEN 20 ELSE input.Limit
             data == IF Len(http.val) > limit THEN Take(http.val, limit)
                     ELSE http.val
         IN Ok([i \in 1..Len(data) |->
                  [media_item_id |-> input.MediaID,
                   provider_name |-> "opensubtitles",
                   candidate_id |-> data[i].id,
                   language |-> NormalizeLanguage(data[i].lang),
                   score |-> ScoreByLanguage(priority,
                                 NormalizeLanguage(data[i].lang))
                             + (data[i].download_count \div 200)
                             + (IF data[i].from_trusted THEN 2 ELSE 0)]])

\* searchClient.Search of the client named name
Search(name, priority, credential, input, http) ==
    IF name = "assrt" THEN assrtSearch(priority, credential, input, http)
    ELSE opensubtitlesSearch(priority, credential, input, http)

\* fault injection: the merged list left in arrival order
Unsorted(s) == s

\* sort.Slice(allCandidates, less) with less(i, j) = Score[i] > Score[j].
\* For at most 12 elements sort.Slice is an insertion sort: element x moves
\* left past the elements it is less than.
RECURSIVE InsertSorted(_, _)
InsertSorted(sorted, x) ==
    IF sorted # <<>> /\ x.score > sorted[Len(sorted)].score
    THEN Append(InsertSorted(SubSeq(sorted, 1, Len(sorted) - 1), x),
                sorted[Len(sorted)])
    ELSE Append(sorted, x)

RECURSIVE SortSlice(_)
SortSlice(s) ==
    IF s = <<>> THEN <<>>
    ELSE InsertSorted(SortSlice(SubSeq(s, 1, Len(s) - 1)), s[Len(s)])

\* ----------------------------------------------------------------- state
VARIABLES
    cfg,              \* config.Config of the running process (AppSecret)
    settings,         \* the app_settings row
    creds,            \* provider_credentials: name -> secret_blob
    media,            \* media_items, in id order
    cands,            \* subtitle_candidates, in insertion order
    candSeq,          \* the largest id subtitle_candidates has given out
    files,            \* subtitle_files, in insertion order
    jobs,             \* jobs, in creation order
    scan,             \* the runScanJob goroutine
    srch,             \* the handleSearchSubtitles request being served
    tasks,            \* its provider goroutines, by provider name
    wg,               \* its sync.WaitGroup counter
    resultCh,         \* its fan-in channel (buffered)
    chClosed,         \* resultCh is closed
    results,          \* its slice results
    allCandidates,    \* its slice allCandidates
    errorsByProvider, \* its map errorsByProvider
    response,         \* the last response handleSearchSubtitles wrote
    requests,         \* requests and restarts served so far
    tx,               \* the callers of the repository, statement by statement
    walk,             \* a run of scanner.Run, root by root
    call,             \* a call of a pure function: its arguments and result
    published,        \* the calls of EventBus.Publish made for jobs, in order
    bus               \* the EventBus: its mutex, clients and their channels

vars ==
    <<cfg, settings, creds, media, cands, candSeq, files, jobs, scan, srch,
      tasks, wg,
      resultCh, chClosed, results, allCandidates, errorsByProvider, response,
      requests, tx, walk, call, published, bus>>

storeVars == <<settings, creds, media, cands, candSeq, files, jobs>>

\* the variables of the specifications that follow one repository call, one
\* scan, one function call, the events of a job or the event bus in steps
\* of their own; the server at large keeps them as they are
unitVars == <<tx, walk, call, published, bus>>

searchVars ==
    <<srch, tasks, wg, resultCh, chClosed, results, allCandidates,
      errorsByProvider, response>>

\* values of the environment variables APP_SECRET, ASSRT_TOKEN and
\* OPENSUBTITLES_API_KEY; the last two are read by EnsureDefaults only
Secrets == {<<>>, <<"k">>}

AssrtTokens == {<<>>, <<SP>>, <<"t">>}

ApiKeys == {<<>>, <<"a">>}

Configs ==
    [AppSecret : Secrets, ASSRTToken : AssrtTokens, OpenSubtitlesAPIKey : ApiKeys]

DefaultPriority == <<L_bilingual, L_zh_cn, L_zh_tw>>

DefaultSettings ==
    [language_priority |-> DefaultPriority, auto_replace_existing |-> FALSE,
     subtitle_output_path |-> <<"/">>]

\* Repository.EnsureDefaults on the rows found at boot: rows holds the
\* app_settings row if there is one, table the provider_credentials rows
EnsureDefaultSettings(rows) == IF rows = <<>> THEN DefaultSettings ELSE rows[1]

\* fault injection: a boot that inserts no provider_credentials rows
EnsureNoCredentials(table, c) == table

EnsureDefaultCredentials(table, c) ==
    LET t0 == [n \in DOMAIN table \cup ProviderNames |->
                  IF n \in DOMAIN table THEN table[n] ELSE RawBlob(<<>>)]
        t1 == IF c.ASSRTToken # <<>>
              THEN SaveProviderCredential(t0, "assrt", RawBlob(c.ASSRTToken))
              ELSE t0
    IN IF c.OpenSubtitlesAPIKey # <<>>
       THEN SaveProviderCredentialJSON(t1, "opensubtitles",
                [k \in {"api_key", "username", "password", "user_agent"} |->
                    CASE k = "api_key" -> c.OpenSubtitlesAPIKey
                      [] k = "user_agent" -> <<"4">>
                      [] OTHER -> <<>>])
       ELSE t1

\* a provider goroutine: where it is, the credential it was started with,
\* whether its context is done, and what its call of Search returned
NoTask ==
    [st |-> "none", cred |-> EmptyMap, ctxDone |-> FALSE, candidates |-> <<>>,
     err |-> ""]

IdleSearch ==
    [pc |-> "idle", mediaID |-> 0, input |-> <<>>, priority |-> <<>>, idx |-> 0,
     ctxDone |-> FALSE]

NoResponse ==
    [status |-> 0, media_id |-> 0, candidates |-> <<>>, errors |-> EmptyMap,
     providerRun |-> 0]

IdleScan == [pc |-> "idle", job |-> 0, items |-> <<>>]

\* no repository call, no scan and no function call is being followed
NoTx == <<>>

NoWalk == <<>>

NoCall == <<>>

\* nothing has been published; an event bus nobody subscribed to
NoEvents == <<>>

NoBus == <<>>

\* The database file main finds at boot: a new one, or one left by an
\* earlier run of the server, under an APP_SECRET "p" that has been changed
\* since, that scanned every file and saved the credential of some of the
\* providers (handleSaveCredential: encrypt, SaveProviderCredential).
PriorSecret == <<"p">>

PriorBlob(name) ==
    encrypt(jsonMarshal([k \in {IF name = "assrt" THEN "token" ELSE "api_key"}
                            |-> <<"v">>]),
            PriorSecret, 1)

PriorDatabases ==
    {[media |-> <<>>, creds |-> EmptyMap]}
      \cup {[media |-> UpsertMediaItems(<<>>, RunItems(1..NumFiles, {}, 1),
                                        FALSE).media,
              creds |-> [n \in ProviderNames |->
                           IF n \in saved THEN PriorBlob(n) ELSE RawBlob(<<>>)]] :
               saved \in SUBSET ProviderNames}

\* the state once main has opened the database and run EnsureDefaults
Init ==
    /\ \E c \in Configs : \E prior \in PriorDatabases :
          /\ cfg = [AppSecret |-> c.AppSecret]
          /\ creds = EnsureDefaultCredentials(prior.creds, c)
          /\ media = prior.media
    /\ settings = EnsureDefaultSettings(<<>>)
    /\ cands = <<>>
    /\ candSeq = 0
    /\ files = <<>>
    /\ jobs = <<>>
    /\ scan = IdleScan
    /\ srch = IdleSearch
    /\ tasks = [n \in ProviderNames |-> NoTask]
    /\ wg = 0
    /\ resultCh = <<>>
    /\ chClosed = FALSE
    /\ results = <<>>
    /\ allCandidates = <<>>
    /\ errorsByProvider = EmptyMap
    /\ response = NoResponse
    /\ requests = 0
    /\ tx = NoTx
    /\ walk = NoWalk
    /\ call = NoCall
    /\ published = NoEvents
    /\ bus = NoBus

\* ------------------------------------------------------------- scan job
\* UPDATE jobs SET status, details (kept when the new one is empty), error;
\* the statement fails, and is ignored by runScanJob, once ctx is done
UpdateJob(table, jobID, status, details, errText, ctxDone) ==
    IF ctxDone THEN table
    ELSE [i \in 1..Len(table) |->
            IF i = jobID
            THEN [status |-> status,
                  details |-> IF details = Nil THEN table[i].details ELSE details,
                  error |-> errText]
            ELSE table[i]]

\* handleScan: CreateJob, then go runScanJob.  One scan job runs at a time.
handleScan ==
    /\ requests < MaxRequests
    /\ srch.pc = "idle"
    /\ scan.pc = "idle"
    /\ jobs' = Append(jobs, [status |-> "queued", details |-> <<"scan">>,
                             error |-> ""])
    /\ scan' = [pc |-> "queued", job |-> Len(jobs) + 1, items |-> <<>>]
    /\ requests' = requests + 1
    /\ UNCHANGED <<cfg, settings, creds, media, cands, candSeq, files>>
    /\ UNCHANGED searchVars
    /\ UNCHANGED unitVars

\* runScanJob up to the return of scanner.Run: the job is marked running and
\* the walk finds some of the files, some with a subtitle beside them
runScanJobScan ==
    /\ scan.pc = "queued"
    /\ \E found \in SUBSET (1..NumFiles) : \E withSub \in SUBSET found :
          scan' = [scan EXCEPT !.pc = "scanned",
                               !.items = RunItems(found, withSub, 1)]
    /\ jobs' = UpdateJob(jobs, scan.job, "running", Nil, "", FALSE)
    /\ UNCHANGED <<cfg, settings, creds, media, cands, candSeq, files, requests>>
    /\ UNCHANGED searchVars
    /\ UNCHANGED unitVars

\* runScanJob from UpsertMediaItems on.  The job's 30 s context may be past
\* its deadline when the transaction begins (d1) or when the final status
\* is written (d2).
runScanJobUpsert ==
    /\ scan.pc = "scanned"
    /\ \E d1 \in BOOLEAN : \E d2 \in BOOLEAN :
          /\ d1 => d2
          /\ LET r == UpsertMediaItems(media, scan.items, d1) IN
             /\ media' = r.media
             /\ jobs' = IF r.err # ""
                        THEN UpdateJob(jobs, scan.job, "failed", Nil, r.err, d2)
                        ELSE UpdateJob(jobs, scan.job, "completed",
                                       <<r.inserted, r.updated>>, "", d2)
    /\ scan' = IdleScan
    /\ UNCHANGED <<cfg, settings, creds, cands, candSeq, files, requests>>
    /\ UNCHANGED searchVars
    /\ UNCHANGED unitVars

\* ------------------------------------------------- credentials, settings
\* request bodies of PUT /providers/{name}/credential
CredentialPayloads ==
    UNION {[K -> {<<SP>>, <<"v">>}] : K \in {{}, {"token"}, {"api_key"}}}

\* freshly generated nonces
Nonces == {1}

\* the map trimmed of handleSaveCredential
TrimmedFields(payload) ==
    [k \in {x \in DOMAIN payload : TrimSpace(payload[x]) # <<>>} |->
        TrimSpace(payload[k])]

handleSaveCredential ==
    /\ requests < MaxRequests
    /\ srch.pc = "idle"
    /\ requests' = requests + 1
    /\ \E name \in ProviderNames \cup {"subhd"} :
       \E payload \in CredentialPayloads : \E nonce \in Nonces :
          IF name \notin {"assrt", "opensubtitles"}
               \/ DOMAIN TrimmedFields(payload) = {}
          THEN creds' = creds
          ELSE creds' = SaveProviderCredential(creds, name,
                            encrypt(jsonMarshal(TrimmedFields(payload)),
                                    cfg.AppSecret, nonce))
    /\ UNCHANGED <<cfg, settings, media, cands, candSeq, files, jobs, scan>>
    /\ UNCHANGED searchVars
    /\ UNCHANGED unitVars

\* request bodies of PUT /settings
SettingsPayloads ==
    [language_priority : {<<>>, <<<<"E", "N">>>>},
     auto_replace_existing : BOOLEAN,
     subtitle_output_path : {<<SP>>, <<"/">>}]

UpdateSettings(row, payload) ==
    IF Len(payload.language_priority) = 0
    THEN [err |-> "language_priority cannot be empty", row |-> row]
    ELSE [err |-> "", row |-> payload]

handleUpdateSettings ==
    /\ requests < MaxRequests
    /\ srch.pc = "idle"
    /\ requests' = requests + 1
    /\ \E payload \in SettingsPayloads :
          IF Len(payload.language_priority) = 0
               \/ TrimSpace(payload.subtitle_output_path) = <<>>
          THEN settings' = settings
          ELSE settings' = UpdateSettings(settings, payload).row
    /\ UNCHANGED <<cfg, creds, media, cands, candSeq, files, jobs, scan>>
    /\ UNCHANGED searchVars
    /\ UNCHANGED unitVars

\* a call of Repository.SaveSubtitleFile, made when a downloaded subtitle
\* has been written for a media item
saveSubtitleFile ==
    /\ requests < MaxRequests
    /\ srch.pc = "idle"
    /\ requests' = requests + 1
    /\ \E mediaID \in 1..NumFiles : \E name \in {"assrt"} :
          LET r == SaveSubtitleFile(media, files, mediaID, name) IN
          /\ media' = r.media
          /\ files' = r.files
    /\ UNCHANGED <<cfg, settings, creds, cands, candSeq, jobs, scan>>
    /\ UNCHANGED searchVars
    /\ UNCHANGED unitVars

\* The process stops and main starts again on the same database, under any
\* environment: config.Load, db.Open, EnsureDefaults.
Restart ==
    /\ requests < MaxRequests
    /\ requests' = requests + 1
    /\ scan.pc = "idle"
    /\ srch.pc = "idle"
    /\ \E c \in Configs :
          /\ cfg' = [AppSecret |-> c.AppSecret]
          /\ creds' = EnsureDefaultCredentials(creds, c)
    /\ settings' = EnsureDefaultSettings(<<settings>>)
    /\ UNCHANGED <<media, cands, candSeq, files, jobs, scan>>
    /\ UNCHANGED searchVars
    /\ UNCHANGED unitVars

\* ---------------------------------------------------------------- search
\* written by writeError
ErrorResponse(status, mediaID) ==
    [status |-> status, media_id |-> mediaID, candidates |-> <<>>,
     errors |-> EmptyMap, providerRun |-> 0]

\* What the context of a provider goroutine is derived from:
\* context.WithTimeout(context.Background(), 25*time.Second).
TaskContextParent == "background"

\* handleSearchSubtitles up to the loop over the clients: the id is parsed,
\* the media item and the settings are read, the input is built.  One search
\* request is served at a time.
searchBegin ==
    /\ requests < MaxRequests
    /\ requests' = requests + 1
    /\ srch.pc = "idle"
    /\ scan.pc = "idle"
    /\ \E mediaID \in 0..NumFiles :
          LET item == GetMediaByID(media, mediaID, FALSE) IN
          IF mediaID <= 0
          THEN /\ response' = ErrorResponse(400, mediaID)
               /\ srch' = IdleSearch
          ELSE IF item.err # ""
          THEN /\ response' = ErrorResponse(404, mediaID)
               /\ srch' = IdleSearch
          ELSE /\ response' = NoResponse
               /\ srch' = [pc |-> "resolve", mediaID |-> mediaID,
                           input |-> [MediaID |-> item.val.id,
                                      Title |-> item.val.title,
                                      MediaType |-> item.val.media_type,
                                      Year |-> item.val.year,
                                      Season |-> item.val.season,
                                      Episode |-> item.val.episode,
                                      Limit |-> SearchLimit],
                           priority |-> settings.language_priority,
                           idx |-> 1, ctxDone |-> FALSE]
    /\ tasks' = [n \in ProviderNames |-> NoTask]
    /\ wg' = 0
    /\ resultCh' = <<>>
    /\ chClosed' = FALSE
    /\ results' = <<>>
    /\ allCandidates' = <<>>
    /\ errorsByProvider' = EmptyMap
    /\ UNCHANGED <<cfg, scan>>
    /\ UNCHANGED storeVars
    /\ UNCHANGED unitVars

\* r.Context() is cancelled: the caller went away, or the router's 60 s
\* timeout passed.  A provider goroutine's context is cancelled with it only
\* when it is derived from the request's.
cancelRequest ==
    /\ srch.pc \in {"resolve", "collect"}
    /\ ~srch.ctxDone
    /\ srch' = [srch EXCEPT !.ctxDone = TRUE]
    /\ tasks' = [n \in ProviderNames |->
                    IF tasks[n].st = "running"
                    THEN [tasks[n] EXCEPT
                            !.ctxDone = (TaskContextParent = "request")]
                    ELSE tasks[n]]
    /\ UNCHANGED <<cfg, scan, requests, wg, resultCh, chClosed, results,
                   allCandidates, errorsByProvider, response>>
    /\ UNCHANGED storeVars
    /\ UNCHANGED unitVars

\* fault injection: a providerResult that loses the error
ProviderResultNoErr(name, candidates, err) ==
    [Name |-> name, Candidates |-> candidates, Err |-> ""]

\* a value sent on resultCh
ProviderResult(name, candidates, err) ==
    [Name |-> name, Candidates |-> candidates, Err |-> err]

\* One iteration of the loop over clients: the credential of the next client
\* is read and parsed; an error is sent on resultCh (the send blocks while
\* the buffer is full), an empty credential skips the client, any other
\* starts its goroutine.  After the last client the closer goroutine starts.
searchResolve ==
    /\ srch.pc = "resolve"
    /\ LET name == Providers[srch.idx]
           blob == GetProviderCredentialBlob(creds, name, srch.ctxDone)
           parsed == parseCredentialBlob(blob.val, cfg.AppSecret, name)
       IN IF blob.err # ""
          THEN /\ Len(resultCh) < ResultChCap
               /\ resultCh' = Append(resultCh, ProviderResult(name, <<>>, blob.err))
               /\ UNCHANGED <<tasks, wg>>
          ELSE IF parsed.err # ""
          THEN /\ Len(resultCh) < ResultChCap
               /\ resultCh' = Append(resultCh, ProviderResult(name, <<>>, parsed.err))
               /\ UNCHANGED <<tasks, wg>>
          ELSE IF DOMAIN parsed.val = {}
          THEN UNCHANGED <<resultCh, tasks, wg>>
          ELSE /\ wg' = wg + 1
               /\ tasks' = [tasks EXCEPT ![name] =
                               [NoTask EXCEPT !.st = "running",
                                               !.cred = parsed.val]]
               /\ UNCHANGED resultCh
    /\ srch' = [srch EXCEPT !.idx = srch.idx + 1,
                            !.pc = IF srch.idx = Len(Providers)
                                   THEN "collect" ELSE "resolve"]
    /\ UNCHANGED <<cfg, scan, requests, chClosed, results, allCandidates,
                   errorsByProvider, response>>
    /\ UNCHANGED storeVars
    /\ UNCHANGED unitVars

\* A provider goroutine: Search returns, the result is sent on resultCh (the
\* send blocks while the buffer is full), then wg.Done.  A goroutine whose
\* context is done gets the context's error from the HTTP call.
taskReturn ==
    \E name \in ProviderNames :
       /\ tasks[name].st = "running"
       /\ Len(resultCh) < ResultChCap
       /\ \E http \in (IF tasks[name].ctxDone
                       THEN {Fail("context canceled")}
                       ELSE HttpOutcomes(name)) :
             LET r == Search(name, srch.priority, tasks[name].cred,
                             srch.input, http)
             IN /\ resultCh' = Append(resultCh,
                                   ProviderResult(name, r.val, r.err))
                /\ tasks' = [tasks EXCEPT ![name].st = "sent",
                                          ![name].candidates = r.val,
                                          ![name].err = r.err]
       /\ wg' = wg - 1
       /\ UNCHANGED <<cfg, scan, requests, srch, chClosed, results,
                      allCandidates, errorsByProvider, response>>
       /\ UNCHANGED storeVars
       /\ UNCHANGED unitVars

\* fault injection: a closer that does not wait for the goroutines
closeWithoutWait ==
    /\ srch.pc = "collect"
    /\ ~chClosed
    /\ chClosed' = TRUE
    /\ UNCHANGED <<cfg, scan, requests, srch, tasks, wg, resultCh, results,
                   allCandidates, errorsByProvider, response>>
    /\ UNCHANGED storeVars
    /\ UNCHANGED unitVars

\* the closer goroutine: wg.Wait() returns, close(resultCh)
closeResultCh ==
    /\ srch.pc = "collect"
    /\ ~chClosed
    /\ wg = 0
    /\ chClosed' = TRUE
    /\ UNCHANGED <<cfg, scan, requests, srch, tasks, wg, resultCh, results,
                   allCandidates, errorsByProvider, response>>
    /\ UNCHANGED storeVars
    /\ UNCHANGED unitVars

\* one iteration of "for result := range resultCh"
searchCollect ==
    /\ srch.pc = "collect"
    /\ resultCh # <<>>
    /\ LET result == Head(resultCh) IN
       /\ resultCh' = Tail(resultCh)
       /\ results' = Append(results, result)
       /\ IF result.Err # ""
          THEN /\ errorsByProvider' =
                     [n \in DOMAIN errorsByProvider \cup {result.Name} |->
                         IF n = result.Name THEN result.Err
                         ELSE errorsByProvider[n]]
               /\ UNCHANGED allCandidates
          ELSE /\ allCandidates' = allCandidates \o result.Candidates
               /\ UNCHANGED errorsByProvider
    /\ UNCHANGED <<cfg, scan, requests, srch, tasks, wg, chClosed, response>>
    /\ UNCHANGED storeVars
    /\ UNCHANGED unitVars

\* The range loop ends on the closed, drained channel: the candidates are
\* sorted by score, replace the stored candidates of the media item, and the
\* response is written.
searchFinish ==
    /\ srch.pc = "collect"
    /\ resultCh = <<>>
    /\ chClosed
    /\ LET sorted == SortSlice(allCandidates)
           r == ReplaceSubtitleCandidates(cands, candSeq, srch.mediaID, sorted,
                                          srch.ctxDone)
       IN /\ allCandidates' = <<>>
          /\ cands' = r.table
          /\ candSeq' = r.seq
          /\ response' = IF r.err # ""
                         THEN ErrorResponse(500, srch.mediaID)
                         ELSE [status |-> 200, media_id |-> srch.mediaID,
                               candidates |-> sorted,
                               errors |-> errorsByProvider,
                               providerRun |-> Len(results)]
    /\ srch' = IdleSearch
    /\ tasks' = [n \in ProviderNames |-> NoTask]
    /\ results' = <<>>
    /\ errorsByProvider' = EmptyMap
    /\ chClosed' = FALSE
    /\ UNCHANGED <<cfg, scan, requests, wg, resultCh>>
    /\ UNCHANGED <<settings, creds, media, files, jobs>>
    /\ UNCHANGED unitVars

Next ==
    \/ handleScan
    \/ runScanJobScan
    \/ runScanJobUpsert
    \/ handleSaveCredential
    \/ handleUpdateSettings
    \/ saveSubtitleFile
    \/ Restart
    \/ searchBegin
    \/ cancelRequest
    \/ searchResolve
    \/ taskReturn
    \/ closeResultCh
    \/ searchCollect
    \/ searchFinish

Spec == Init /\ [][Next]_vars

\* ------------------------------------------- repository calls, by statement
\* The server at rest: no request is being served, nothing but the tables
\* media_items and subtitle_candidates is looked at.
AtRest ==
    /\ cfg = [AppSecret |-> <<>>]
    /\ settings = DefaultSettings
    /\ creds = [n \in ProviderNames |-> RawBlob(<<>>)]
    /\ files = <<>>
    /\ jobs = <<>>
    /\ scan = IdleScan
    /\ srch = IdleSearch
    /\ tasks = [n \in ProviderNames |-> NoTask]
    /\ wg = 0
    /\ resultCh = <<>>
    /\ chClosed = FALSE
    /\ results = <<>>
    /\ allCandidates = <<>>
    /\ errorsByProvider = EmptyMap
    /\ response = NoResponse
    /\ requests = 0
    /\ published = NoEvents
    /\ bus = NoBus

restVars ==
    <<cfg, settings, creds, files, jobs, scan, srch, tasks, wg, resultCh,
      chClosed, results, allCandidates, errorsByProvider, response, requests,
      published, bus>>

\* goroutines calling the repository at the same time
Callers == 1..NumCallers

\* the tables a transaction of UpsertMediaItems or ReplaceSubtitleCandidates
\* writes (sqlite_sequence, which holds candSeq, is a table as well)
Store == [media |-> media, cands |-> cands, candSeq |-> candSeq]

\* fault injection: a pool that hands the connection out while it is in use
ConnAlwaysFree(holder) == TRUE

\* db.SetMaxOpenConns(1): a statement or BeginTx gets the one connection of
\* the pool only when no transaction holds it
ConnFree(holder) == holder = 0

\* fault injection: a failed call that leaves its writes in place
NoRollback(journal, store) == store

\* tx.Rollback() of the deferred function (and what a failed COMMIT leaves):
\* the tables as they were at BeginTx
Rollback(journal, store) == journal

\* the candidate lists a caller passes to ReplaceSubtitleCandidates: what one
\* provider returned for the item, sorted
TxCandidateLists(mediaID) ==
    LET input == [MediaID |-> mediaID, Title |-> <<"a">>, MediaType |-> "movie",
                  Year |-> Nil, Season |-> Nil, Episode |-> Nil,
                  Limit |-> SearchLimit]
    IN {SortSlice(Search(n, DefaultPriority,
                         [f \in {"token", "api_key"} |-> <<"v">>], input,
                         Ok([j \in 1..k |-> CatalogItem(n, j)])).val) :
           n \in ProviderNames, k \in 0..MaxItems}

\* the calls a caller can make: UpsertMediaItems(items),
\* ReplaceSubtitleCandidates(mediaID, candidates),
\* ListSubtitleCandidates(mediaID)
RepoCalls ==
    {[op |-> "upsert", items |-> RunItems(found, withSub, 1), mediaID |-> 0] :
        found \in SUBSET (1..NumFiles) \ {{}}, withSub \in {{}, 1..NumFiles}}
      \cup UNION {{[op |-> "replace", items |-> list, mediaID |-> m] :
                     list \in TxCandidateLists(m)} : m \in 1..NumFiles}
      \cup {[op |-> "list", items |-> <<>>, mediaID |-> m] : m \in 1..NumFiles}

\* a caller before its call (raced: another call was waiting for the
\* connection when this one got it)
IdleCaller ==
    [pc |-> "idle", op |-> "", items |-> <<>>, mediaID |-> 0, i |-> 0,
     fault |-> "", err |-> "", inserted |-> 0, updated |-> 0, seen |-> <<>>,
     raced |-> FALSE]

\* another caller has made its call and waits for the connection
OthersWaiting(c) == \E d \in Callers \ {c} : tx.ops[d].pc = "begin"

\* statements of the transaction of a call: one upsert per item; the DELETE
\* and one INSERT per candidate
NumStmts(o) == IF o.op = "upsert" THEN Len(o.items) ELSE 1 + Len(o.items)

\* the (i+1)-th statement of the call, on the tables
ExecStmt(store, o) ==
    IF o.op = "upsert"
    THEN [store EXCEPT !.media = InsertOrUpdateMedia(@, o.items[o.i + 1])]
    ELSE IF o.i = 0
    THEN [store EXCEPT !.cands = DeleteCandidates(@, o.mediaID)]
    ELSE [store EXCEPT
            !.cands = InsertCandidates(@, store.candSeq, o.mediaID,
                                       <<o.items[o.i]>>),
            !.candSeq = @ + 1]

\* the tables a run of this kind starts from: empty, or every file scanned
\* and candidates stored for item 1
TxPriorStores ==
    {[media |-> <<>>, cands |-> <<>>, candSeq |-> 0]}
      \cup {[media |-> UpsertMediaItems(<<>>, RunItems(1..NumFiles, {}, 1),
                                        FALSE).media,
              cands |-> r.table, candSeq |-> r.seq] :
               r \in {ReplaceSubtitleCandidates(<<>>, 0, 1, list, FALSE) :
                        list \in {l \in TxCandidateLists(1) : Len(l) = 1}}}

TxInit ==
    /\ AtRest
    /\ \E prior \in TxPriorStores :
          /\ media = prior.media
          /\ cands = prior.cands
          /\ candSeq = prior.candSeq
          /\ tx = [holder |-> 0, journal |-> prior, initial |-> prior,
                   ops |-> [c \in Callers |-> IdleCaller]]
    /\ walk = NoWalk
    /\ call = NoCall

\* the tables after the step
SetStore(store) ==
    /\ media' = store.media
    /\ cands' = store.cands
    /\ candSeq' = store.candSeq

\* a goroutine calls UpsertMediaItems, ReplaceSubtitleCandidates or
\* ListSubtitleCandidates
repoCall ==
    \E c \in Callers : \E o \in RepoCalls :
       /\ tx.ops[c].pc = "idle"
       /\ tx' = [tx EXCEPT !.ops[c] =
                    [IdleCaller EXCEPT !.pc = "begin", !.op = o.op,
                                       !.items = o.items,
                                       !.mediaID = o.mediaID]]
       /\ UNCHANGED <<media, cands, candSeq, walk, call>>
       /\ UNCHANGED restVars

\* r.db.BeginTx(ctx, nil): waits for the connection; fails when ctx is done
beginTx ==
    \E c \in Callers : \E ctxDone \in BOOLEAN :
       /\ tx.ops[c].pc = "begin"
       /\ tx.ops[c].op \in {"upsert", "replace"}
       /\ ConnFree(tx.holder)
       /\ tx' = IF ctxDone
                THEN [tx EXCEPT !.ops[c].pc = "done",
                                !.ops[c].fault = "begin",
                                !.ops[c].err = "context done"]
                ELSE [tx EXCEPT !.holder = c, !.journal = Store,
                                !.ops[c].pc = "intx",
                                !.ops[c].raced = OthersWaiting(c)]
       /\ UNCHANGED <<media, cands, candSeq, walk, call>>
       /\ UNCHANGED restVars

\* The next statement of the transaction (for an upsert: the existence
\* check and the INSERT ... ON CONFLICT of the next item).  When it fails the
\* call returns the error and its deferred function rolls back.
execStmt ==
    \E c \in Callers : \E failed \in BOOLEAN :
       LET o == tx.ops[c]
           existedBefore ==
               o.op = "upsert"
                 /\ mediaExistsByPathTx(media, o.items[o.i + 1].file_path)
       IN /\ o.pc = "intx"
          /\ o.i < NumStmts(o)
          /\ IF failed
             THEN /\ SetStore(Rollback(tx.journal, Store))
                  /\ tx' = [tx EXCEPT !.holder = 0,
                                      !.ops[c].pc = "done",
                                      !.ops[c].fault = "statement",
                                      !.ops[c].err = "statement failed",
                                      !.ops[c].inserted = 0,
                                      !.ops[c].updated = 0]
             ELSE /\ SetStore(ExecStmt(Store, o))
                  /\ tx' = [tx EXCEPT
                              !.ops[c].i = o.i + 1,
                              !.ops[c].inserted =
                                  IF o.op = "upsert" /\ ~existedBefore
                                  THEN @ + 1 ELSE @,
                              !.ops[c].updated =
                                  IF o.op = "upsert" /\ existedBefore
                                  THEN @ + 1 ELSE @]
          /\ UNCHANGED <<walk, call>>
          /\ UNCHANGED restVars

\* tx.Commit(): the writes stay, or the commit fails and nothing stays
commitTx ==
    \E c \in Callers : \E failed \in BOOLEAN :
       LET o == tx.ops[c] IN
       /\ o.pc = "intx"
       /\ o.i = NumStmts(o)
       /\ IF failed
          THEN /\ SetStore(Rollback(tx.journal, Store))
               /\ tx' = [tx EXCEPT !.holder = 0,
                                   !.ops[c].pc = "done",
                                   !.ops[c].fault = "commit",
                                   !.ops[c].err = "commit failed",
                                   !.ops[c].inserted = 0,
                                   !.ops[c].updated = 0]
          ELSE /\ UNCHANGED <<media, cands, candSeq>>
               /\ tx' = [tx EXCEPT !.holder = 0, !.ops[c].pc = "done"]
       /\ UNCHANGED <<walk, call>>
       /\ UNCHANGED restVars

\* ListSubtitleCandidates: one SELECT, run when it gets the connection
listCandidates ==
    \E c \in Callers :
       /\ tx.ops[c].pc = "begin"
       /\ tx.ops[c].op = "list"
       /\ ConnFree(tx.holder)
       /\ tx' = [tx EXCEPT !.ops[c].pc = "done",
                           !.ops[c].raced = OthersWaiting(c),
                           !.ops[c].seen = CandidatesOf(cands,
                                                        tx.ops[c].mediaID)]
       /\ UNCHANGED <<media, cands, candSeq, walk, call>>
       /\ UNCHANGED restVars

TxNext ==
    \/ repoCall
    \/ beginTx
    \/ execStmt
    \/ commitTx
    \/ listCandidates

TxSpec == TxInit /\ [][TxNext]_vars

\* ------------------------------------------------------------- scanner
\* a local variable of a Go function: value is computed once and Body is
\* evaluated with it
With(value, Body(_)) == CHOOSE r \in {Body(v) : v \in {value}} : TRUE

Digits == <<"0", "1", "2", "3", "4", "5", "6", "7", "8", "9">>

IsDigit(c) == c \in Range(Digits)

Letters ==
    {"a", "b", "c", "d", "e", "f", "g", "h", "i", "j", "k", "l", "m", "n",
     "o", "p", "q", "r", "s", "t", "u", "v", "w", "x", "y", "z",
     "A", "B", "C", "D", "E", "F", "G", "H", "I", "J", "K", "L", "M", "N",
     "O", "P", "Q", "R", "S", "T", "U", "V", "W", "X", "Y", "Z"}

\* \w of the regexp package, for the \b of yearPattern
IsWord(c) == c \in Letters \cup Range(Digits) \cup {"_"}

\* fault injection: a conversion that reads the last digit only
AtoiLastDigit(ds) == CHOOSE d \in 0..9 : Digits[d + 1] = ds[Len(ds)]

\* strconv.Atoi of a run of decimal digits
RECURSIVE Atoi(_)
Atoi(ds) ==
    IF ds = <<>> THEN 0
    ELSE 10 * Atoi(SubSeq(ds, 1, Len(ds) - 1))
           + (CHOOSE d \in 0..9 : Digits[d + 1] = ds[Len(ds)])

\* strconv.Itoa of a number >= 0
RECURSIVE Itoa(_)
Itoa(n) ==
    IF n < 10 THEN <<Digits[n + 1]>>
    ELSE Append(Itoa(n \div 10), Digits[(n % 10) + 1])

\* filepath.Ext: the suffix that starts at the last dot of the name
Ext(name) ==
    LET dots == {i \in 1..Len(name) : name[i] = "."}
    IN IF dots = {} THEN <<>>
       ELSE SubSeq(name, CHOOSE i \in dots : \A j \in dots : j <= i, Len(name))

HasSuffix(s, suffix) ==
    /\ Len(suffix) <= Len(s)
    /\ SubSeq(s, Len(s) - Len(suffix) + 1, Len(s)) = suffix

\* strings.TrimSuffix
TrimSuffix(s, suffix) ==
    IF HasSuffix(s, suffix) THEN SubSeq(s, 1, Len(s) - Len(suffix)) ELSE s

\* strings.ReplaceAll(s, old, new), old not empty: non-overlapping
\* occurrences, from the left
RECURSIVE ReplaceAll(_, _, _)
ReplaceAll(str, old, new) ==
    With(str, LAMBDA s :
        IF Len(s) < Len(old) THEN s
        ELSE IF SubSeq(s, 1, Len(old)) = old
        THEN new \o ReplaceAll(SubSeq(s, Len(old) + 1, Len(s)), old, new)
        ELSE <<Head(s)>> \o ReplaceAll(Tail(s), old, new))

\* strings.Join(strings.Fields(s), " "): the words of s, one space between
RECURSIVE JoinFields(_)
JoinFields(s) ==
    With(TrimLeft(s), LAMBDA t :
        IF Len(t) <= 1 THEN t
        ELSE IF t[2] = SP
        THEN IF TrimLeft(Tail(t)) = <<>> THEN <<t[1]>>
             ELSE <<t[1], SP>> \o JoinFields(Tail(t))
        ELSE <<t[1]>> \o JoinFields(Tail(t)))

\* the class [.\s_\-] of episodePattern (of \s, the space)
SepClass == {".", SP, "_", "-"}

\* fault injection: the pattern with any character in the place of its
\* first separator class (the marker is then found inside a word as well)
EpisodeAfterAny(t, i, ls, le) ==
    /\ i + 2 + ls + le <= Len(t)
    /\ LowerOf(t[i + 1]) = "s"
    /\ \A j \in (i + 2)..(i + 1 + ls) : IsDigit(t[j])
    /\ LowerOf(t[i + 2 + ls]) = "e"
    /\ \A j \in (i + 3 + ls)..(i + 2 + ls + le) : IsDigit(t[j])

\* episodePattern matches t from position i with ls season digits and le
\* episode digits (the optional last separator always matches)
EpisodeAt(t, i, ls, le) ==
    /\ i + 2 + ls + le <= Len(t)
    /\ t[i] \in SepClass
    /\ LowerOf(t[i + 1]) = "s"
    /\ \A j \in (i + 2)..(i + 1 + ls) : IsDigit(t[j])
    /\ LowerOf(t[i + 2 + ls]) = "e"
    /\ \A j \in (i + 3 + ls)..(i + 2 + ls + le) : IsDigit(t[j])

\* episodePattern.FindStringSubmatch / FindStringIndex: the leftmost match,
\* each \d{1,2} taking two digits when it can.  idx0 is the 0-based start.
FindEpisode(str) ==
    With(str, LAMBDA t :
    With({i \in 1..Len(t) :
            \E ls \in 1..2 : \E le \in 1..2 : EpisodeAt(t, i, ls, le)},
         LAMBDA starts :
       IF starts = {} THEN [found |-> FALSE]
       ELSE LET i == CHOOSE x \in starts : \A y \in starts : x <= y
                ls == IF \E le \in 1..2 : EpisodeAt(t, i, 2, le) THEN 2 ELSE 1
                le == IF EpisodeAt(t, i, ls, 2) THEN 2 ELSE 1
            IN [found |-> TRUE, idx0 |-> i - 1,
                season |-> SubSeq(t, i + 2, i + 1 + ls),
                episode |-> SubSeq(t, i + 3 + ls, i + 2 + ls + le)]))

\* yearPattern matches s from position i
YearAt(s, i) ==
    /\ i + 3 <= Len(s)
    /\ SubSeq(s, i, i + 1) \in {<<"1", "9">>, <<"2", "0">>}
    /\ IsDigit(s[i + 2]) /\ IsDigit(s[i + 3])
    /\ (i = 1 \/ ~IsWord(s[i - 1]))
    /\ (i + 3 = Len(s) \/ ~IsWord(s[i + 4]))

\* yearPattern.FindString: the leftmost match, "" when there is none
FindYear(str) ==
    With(str, LAMBDA s :
    With({i \in 1..Len(s) : YearAt(s, i)}, LAMBDA starts :
       IF starts = {} THEN <<>>
       ELSE LET i == CHOOSE x \in starts : \A y \in starts : x <= y
            IN SubSeq(s, i, i + 3)))

\* the name with ".", "_" and "-" turned into spaces and runs of blanks
\* into one space
Normalize(name) ==
    With(ReplaceAll(name, <<".">>, <<SP>>), LAMBDA a :
    With(ReplaceAll(a, <<"_">>, <<SP>>), LAMBDA b :
    With(ReplaceAll(b, <<"-">>, <<SP>>), LAMBDA c : JoinFields(c))))

\* the results of parseMetadata from its locals: match is the match of
\* episodePattern in " " + normalized + " ", rawYear that of yearPattern
MetadataOf(name, normalized, match, rawYear) ==
    LET year == IF rawYear # <<>> THEN Some(Atoi(rawYear)) ELSE Nil
        cleaned == IF match.found
                   THEN TrimSpace(SubSeq(<<SP>> \o normalized \o <<SP>>, 1,
                                         match.idx0))
                   ELSE <<>>
        title1 == IF match.found /\ cleaned # <<>> THEN cleaned ELSE normalized
        title2 == IF year # Nil
                  THEN TrimSpace(ReplaceAll(title1, Itoa(year[1]), <<>>))
                  ELSE title1
    IN [mediaType |-> IF match.found THEN "episode" ELSE "movie",
        title |-> IF title2 = <<>> THEN name ELSE title2,
        year |-> year,
        season |-> IF match.found THEN Some(Atoi(match.season)) ELSE Nil,
        episode |-> IF match.found THEN Some(Atoi(match.episode)) ELSE Nil]

\* parseMetadata(filename): media type, title, year, season, episode
parseMetadata(filename) ==
    With(TrimSuffix(filename, Ext(filename)), LAMBDA name :
    With(Normalize(name), LAMBDA normalized :
    With(FindEpisode(<<SP>> \o normalized \o <<SP>>), LAMBDA match :
    With(FindYear(normalized), LAMBDA rawYear :
       MetadataOf(name, normalized, match, rawYear)))))

\* byte order of the characters that occur in paths
AsciiOrder ==
    <<SP, "-", ".", "/", "0", "1", "2", "3", "4", "5", "6", "7", "8", "9",
      "_", "a", "k", "m", "n", "r", "s", "t", "v", "w", "x">>

CharCode(c) == CHOOSE i \in 1..Len(AsciiOrder) : AsciiOrder[i] = c

\* a < b for Go strings
RECURSIVE StringLess(_, _)
StringLess(a, b) ==
    IF b = <<>> THEN FALSE
    ELSE IF a = <<>> THEN TRUE
    ELSE IF Head(a) = Head(b) THEN StringLess(Tail(a), Tail(b))
    ELSE CharCode(Head(a)) < CharCode(Head(b))

videoExtSet ==
    {<<".", "m", "k", "v">>,
     <<".", "m", "p", "4">>,
     <<".", "a", "v", "i">>,
     <<".", "m", "o", "v">>,
     <<".", "w", "m", "v">>,
     <<".", "f", "l", "v">>,
     <<".", "m", "4", "v">>,
     <<".", "t", "s">>,
     <<".", "m", "2", "t", "s">>,
     <<".", "w", "e", "b", "m">>}

subtitleExtSet ==
    {<<".", "s", "r", "t">>,
     <<".", "a", "s", "s">>,
     <<".", "s", "s", "a">>,
     <<".", "v", "t", "t">>,
     <<".", "s", "u", "b">>}

\* the working directory of the process
Cwd == <<"/">>

\* filepath.Join(dir, name), both clean
Join(dir, name) ==
    IF dir = <<"/">> THEN dir \o name ELSE dir \o <<"/">> \o name

IsAbs(path) == path # <<>> /\ Head(path) = "/"

\* filepath.Abs
Abs(path) == IF IsAbs(path) THEN path ELSE Join(Cwd, path)

\* position of the last "/" of a path, 0 when it has none
LastSlash(path) ==
    LET at == {i \in 1..Len(path) : path[i] = "/"}
    IN IF at = {} THEN 0 ELSE CHOOSE i \in at : \A j \in at : j <= i

\* filepath.Base and filepath.Dir of a clean path that names a file
Base(path) == SubSeq(path, LastSlash(path) + 1, Len(path))

Dir(path) ==
    IF LastSlash(path) = 0 THEN <<".">>
    ELSE IF LastSlash(path) = 1 THEN <<"/">>
    ELSE SubSeq(path, 1, LastSlash(path) - 1)

\* The file system of a run: /v holds 1.mkv, n.txt and the directory s,
\* /v/s holds 2.mkv and 2.srt, /w holds 0.mkv.  Entries are in the order
\* os.ReadDir returns them (sorted by name).
FsDirs == {<<"/", "v">>, <<"/", "v", "/", "s">>, <<"/", "w">>}

DirEntries(abs) ==
    CASE abs = <<"/", "v">> ->
            <<[name |-> <<"1", ".", "m", "k", "v">>, isDir |-> FALSE],
              [name |-> <<"n", ".", "t", "x", "t">>, isDir |-> FALSE],
              [name |-> <<"s">>, isDir |-> TRUE]>>
      [] abs = <<"/", "v", "/", "s">> ->
            <<[name |-> <<"2", ".", "m", "k", "v">>, isDir |-> FALSE],
              [name |-> <<"2", ".", "s", "r", "t">>, isDir |-> FALSE]>>
      [] abs = <<"/", "w">> ->
            <<[name |-> <<"0", ".", "m", "k", "v">>, isDir |-> FALSE]>>
      [] OTHER -> <<>>

\* directories whose ReadDir can fail (no read permission)
Deniable == {<<"/", "v", "/", "s">>, <<"/", "w">>}

\* os.Stat(root): nil error exactly for a path of the file system
StatOk(root) ==
    \/ Abs(root) \in FsDirs
    \/ \E d \in FsDirs : \E i \in 1..Len(DirEntries(d)) :
          Join(d, DirEntries(d)[i].name) = Abs(root)

StatIsDir(root) == Abs(root) \in FsDirs

\* The calls filepath.WalkDir makes to its function for the tree under
\* path, in order: (path, d, nil) for every entry in lexical order, and
\* (path, d, err) once more for a directory that cannot be read, whose
\* entries are then not visited.
RECURSIVE WalkCalls(_, _, _)
RECURSIVE WalkEntries(_, _, _)
WalkCalls(path, isDir, denied) ==
    <<[path |-> path, name |-> Base(path), isDir |-> isDir, walkErr |-> ""]>>
      \o (IF ~isDir THEN <<>>
          ELSE IF Abs(path) \in denied
          THEN <<[path |-> path, name |-> Base(path), isDir |-> isDir,
                  walkErr |-> "permission denied"]>>
          ELSE WalkEntries(path, DirEntries(Abs(path)), denied))

WalkEntries(path, entries, denied) ==
    IF entries = <<>> THEN <<>>
    ELSE WalkCalls(Join(path, Head(entries).name), Head(entries).isDir, denied)
           \o WalkEntries(path, Tail(entries), denied)

HasPrefix(s, prefix) ==
    Len(prefix) <= Len(s) /\ SubSeq(s, 1, Len(prefix)) = prefix

\* hasLocalSubtitle(videoPath): some file base.* next to the video has a
\* subtitle extension
hasLocalSubtitle(videoPath, denied) ==
    LET dir == Dir(videoPath)
        base == TrimSuffix(Base(videoPath), Ext(videoPath))
        entries == IF Abs(dir) \in denied THEN <<>> ELSE DirEntries(Abs(dir))
    IN \E i \in 1..Len(entries) :
          /\ HasPrefix(entries[i].name, base \o <<".">>)
          /\ ToLower(Ext(entries[i].name)) \in subtitleExtSet

\* The function Run passes to WalkDir, on the accumulated items and
\* pathSeen; ret is what it returned (nil on every path).
walkFn(acc, c, denied) ==
    IF c.walkErr # "" THEN [acc EXCEPT !.ret = ""]
    ELSE IF c.isDir THEN [acc EXCEPT !.ret = ""]
    ELSE IF ToLower(Ext(c.name)) \notin videoExtSet THEN [acc EXCEPT !.ret = ""]
    ELSE With(Abs(c.path), LAMBDA absPath :
         IF absPath \in acc.pathSeen THEN [acc EXCEPT !.ret = ""]
         ELSE With(parseMetadata(c.name), LAMBDA meta :
              [items |-> Append(acc.items,
                                [MediaType |-> meta.mediaType,
                                 Title |-> meta.title, Year |-> meta.year,
                                 Season |-> meta.season,
                                 Episode |-> meta.episode,
                                 FilePath |-> absPath,
                                 HasSubtitle |-> hasLocalSubtitle(c.path,
                                                                  denied)]),
               pathSeen |-> acc.pathSeen \cup {absPath},
               ret |-> ""]))

\* filepath.WalkDir(root, fn): calls fn in order and stops at the first
\* error fn returns, which it returns
RECURSIVE WalkDir(_, _, _)
WalkDir(acc0, calls, denied) ==
    With(acc0, LAMBDA acc :
        IF calls = <<>> \/ acc.ret # "" THEN acc
        ELSE WalkDir(walkFn(acc, Head(calls), denied), Tail(calls), denied))

\* fault injection: no sort of the items
KeepWalkOrder(items) == items

\* sort.Slice(items, less) with less(i, j) = FilePath[i] < FilePath[j]; an
\* insertion sort for at most 12 items
RECURSIVE InsertByPath(_, _)
InsertByPath(sorted0, x) ==
    With(sorted0, LAMBDA sorted :
        IF sorted # <<>>
             /\ StringLess(x.FilePath, sorted[Len(sorted)].FilePath)
        THEN Append(InsertByPath(SubSeq(sorted, 1, Len(sorted) - 1), x),
                    sorted[Len(sorted)])
        ELSE Append(sorted, x))

RECURSIVE SortByPath(_)
SortByPath(items) ==
    IF items = <<>> THEN <<>>
    ELSE InsertByPath(SortByPath(SubSeq(items, 1, Len(items) - 1)),
                      items[Len(items)])

\* roots a MEDIA_PATHS list can name: directories, a nested directory, a
\* relative path, a path with blanks around, a missing path, a blank entry
RootChoices ==
    {<<"/", "v">>, <<"/", "v", "/", "s">>, <<"/", "w">>, <<"w">>, <<" ", "/", "v", " ">>, <<"/", "m">>, <<SP>>}

RECURSIVE SeqsUpTo(_, _)
SeqsUpTo(S, n) ==
    IF n = 0 THEN {<<>>}
    ELSE SeqsUpTo(S, n - 1)
           \cup {Append(q, x) : q \in {r \in SeqsUpTo(S, n - 1) : Len(r) = n - 1},
                                x \in S}

\* scanner.Result{}
EmptyResult ==
    [Items |-> <<>>, ScannedVideoFiles |-> 0, MissingSubtitleFiles |-> 0]

\* Run(paths) is called: nothing walked yet.  failed holds the roots whose
\* walk met an error.
ScanInit ==
    /\ AtRest
    /\ media = <<>> /\ cands = <<>> /\ candSeq = 0
    /\ tx = NoTx
    /\ call = NoCall
    /\ \E paths \in SeqsUpTo(RootChoices, MaxRoots) :
       \E denied \in SUBSET Deniable :
          walk = [paths |-> paths, denied |-> denied, i |-> 0,
                  items |-> <<>>, pathSeen |-> {}, failed |-> {},
                  walked |-> {}, pc |-> "loop", result |-> EmptyResult,
                  err |-> Nil]

\* one pass of the loop over paths: the root is skipped when blank or
\* missing, else walked; an error from WalkDir ends Run with Result{} and
\* the wrapped error
walkRoot ==
    /\ walk # NoWalk
    /\ walk.pc = "loop"
    /\ walk.i < Len(walk.paths)
    /\ LET root == TrimSpace(walk.paths[walk.i + 1])
           calls == WalkCalls(root, StatIsDir(root), walk.denied)
           acc == WalkDir([items |-> walk.items, pathSeen |-> walk.pathSeen,
                           ret |-> ""], calls, walk.denied)
       IN walk' =
            IF root = <<>> \/ ~StatOk(root)
            THEN [walk EXCEPT !.i = @ + 1]
            ELSE IF acc.ret # ""
            THEN [walk EXCEPT !.pc = "done", !.result = EmptyResult,
                              !.err = Some([msg |-> "scan path", root |-> root,
                                            cause |-> acc.ret]),
                              !.walked = @ \cup {root},
                              !.failed = @ \cup {root}]
            ELSE [walk EXCEPT
                    !.i = @ + 1, !.items = acc.items,
                    !.pathSeen = acc.pathSeen,
                    !.walked = @ \cup {root},
                    !.failed = IF \E k \in 1..Len(calls) : calls[k].walkErr # ""
                               THEN @ \cup {root} ELSE @]
    /\ UNCHANGED <<media, cands, candSeq, tx, call>>
    /\ UNCHANGED restVars

\* after the loop: the sort by path and the counts
finishRun ==
    /\ walk # NoWalk
    /\ walk.pc = "loop"
    /\ walk.i = Len(walk.paths)
    /\ LET items == SortByPath(walk.items)
           missing == Cardinality({k \in 1..Len(items) : ~items[k].HasSubtitle})
       IN walk' = [walk EXCEPT !.pc = "done",
                               !.result = [Items |-> items,
                                           ScannedVideoFiles |-> Len(items),
                                           MissingSubtitleFiles |-> missing],
                               !.err = Nil]
    /\ UNCHANGED <<media, cands, candSeq, tx, call>>
    /\ UNCHANGED restVars

ScanNext ==
    \/ walkRoot
    \/ finishRun

ScanSpec == ScanInit /\ [][ScanNext]_vars

\* ------------------------------------------------- parseMetadata, alone
\* pieces of file names: a word, markers in both letter cases with one and
\* two digits, a marker followed by a third digit, one with a three-digit
\* season, halves of a marker, a year, a digit
NameTokens ==
    {<<"a">>,
     <<"S", "1", "E", "2">>,
     <<"s", "0", "1", "e", "0", "2">>,
     <<"S", "0", "3", "E", "0", "4", "5">>,
     <<"S", "1", "2", "3", "E", "4">>,
     <<"S", "1">>,
     <<"E", "2">>,
     <<"2", "0", "1", "9">>,
     <<"7">>}

\* what stands between two pieces
NameSeparators == {<<".">>, <<"_">>, <<"-">>, <<SP>>, <<>>}

\* the names made of at most n pieces
RECURSIVE NamesUpTo(_)
NamesUpTo(n) ==
    IF n = 0 THEN {<<>>}
    ELSE NameTokens
           \cup {a \o sep \o t : a \in NamesUpTo(n - 1) \ {<<>>},
                                 sep \in NameSeparators, t \in NameTokens}
           \cup {<<>>}

\* the file names of video files the walk hands to parseMetadata
FileNames == {n \o <<".", "m", "k", "v">> : n \in NamesUpTo(MaxTokens)}

\* the results before the call returns
NoMetadata ==
    [mediaType |-> "", title |-> <<>>, year |-> Nil, season |-> Nil,
     episode |-> Nil]

\* parseMetadata(filename) is called
ParseInit ==
    /\ AtRest
    /\ media = <<>> /\ cands = <<>> /\ candSeq = 0
    /\ tx = NoTx
    /\ walk = NoWalk
    /\ \E filename \in FileNames :
          call = [fn |-> "parseMetadata", filename |-> filename,
                  pc |-> "called", ret |-> NoMetadata]

\* parseMetadata returns
parseMetadataReturn ==
    /\ call # NoCall
    /\ call.fn = "parseMetadata"
    /\ call.pc = "called"
    /\ call' = [call EXCEPT !.pc = "returned",
                            !.ret = parseMetadata(call.filename)]
    /\ UNCHANGED <<media, cands, candSeq, tx, walk>>
    /\ UNCHANGED restVars

ParseNext == parseMetadataReturn

ParseSpec == ParseInit /\ [][ParseNext]_vars

\* ----------------------------------------------- ScoreByLanguage, alone
\* language codes and list entries: a code in lower and in upper case with
\* blanks around, a second code, "unknown", the empty and the blank code,
\* and a code no list of the application names
LangCodes ==
    {L_en, <<SP, "E", "N", SP>>, L_zh_cn, L_unknown, <<>>, <<SP>>, <<"x">>}

\* ScoreByLanguage(priority, lang) is to be called for two codes on one list
ScoreInit ==
    /\ AtRest
    /\ media = <<>> /\ cands = <<>> /\ candSeq = 0
    /\ tx = NoTx
    /\ walk = NoWalk
    /\ \E priority \in SeqsUpTo(LangCodes, MaxPriority) :
       \E a \in LangCodes : \E b \in LangCodes :
          call = [fn |-> "ScoreByLanguage", priority |-> priority,
                  langs |-> <<a, b>>, rets |-> <<>>, pc |-> "called"]

\* ScoreByLanguage returns for the next code
ScoreByLanguageReturn ==
    /\ call # NoCall
    /\ call.fn = "ScoreByLanguage"
    /\ Len(call.rets) < Len(call.langs)
    /\ LET ret == ScoreByLanguage(call.priority,
                                  call.langs[Len(call.rets) + 1])
       IN call' = [call EXCEPT
                     !.rets = Append(@, ret),
                     !.pc = IF Len(call.rets) + 1 = Len(call.langs)
                            THEN "returned" ELSE "called"]
    /\ UNCHANGED <<media, cands, candSeq, tx, walk>>
    /\ UNCHANGED restVars

ScoreNext == ScoreByLanguageReturn

ScoreSpec == ScoreInit /\ [][ScoreNext]_vars

\* ------------------------------------------------ credential vault, alone
\* values of APP_SECRET: none, blank, two secrets, one of them with a blank
\* in front
VaultSecrets == {<<>>, <<SP>>, <<"k">>, <<"p">>, <<SP, "k">>}

\* what encrypt is given: the JSON document handleSaveCredential makes of
\* the non-blank fields of a payload, and other byte strings
VaultPlaintexts ==
    {jsonMarshal(TrimmedFields(payload)) :
        payload \in {q \in UNION {[K -> {<<"v">>, <<SP, "w">>, <<SP>>}] :
                                    K \in SUBSET {"token", "api_key"}} :
                       DOMAIN TrimmedFields(q) # {}}}
      \cup {Text(<<"t">>), Text(<<>>)}

\* encrypt(plaintext, secret) is called; the blob is later read back under
\* the secret other of a later start of the process
VaultInit ==
    /\ AtRest
    /\ media = <<>> /\ cands = <<>> /\ candSeq = 0
    /\ tx = NoTx
    /\ walk = NoWalk
    /\ \E plaintext \in VaultPlaintexts : \E name \in ProviderNames :
       \E secret \in VaultSecrets : \E other \in VaultSecrets :
       \E nonce \in Nonces :
          call = [fn |-> "encrypt", plaintext |-> plaintext,
                  provider |-> name, secret |-> secret, other |-> other,
                  nonce |-> nonce, pc |-> "called", blob |-> RawBlob(<<>>),
                  decrypted |-> Fail(""), parsed |-> Fail("")]

\* encrypt returns the blob that is stored
encryptReturn ==
    /\ call # NoCall
    /\ call.fn = "encrypt"
    /\ call.pc = "called"
    /\ call' = [call EXCEPT !.pc = "stored",
                            !.blob = encrypt(call.plaintext, call.secret,
                                             call.nonce)]
    /\ UNCHANGED <<media, cands, candSeq, tx, walk>>
    /\ UNCHANGED restVars

\* decrypt(strings.TrimPrefix(blob, "enc:"), other) returns
decryptReturn ==
    /\ call # NoCall
    /\ call.fn = "encrypt"
    /\ call.pc = "stored"
    /\ call.blob.prefix = "enc:"
    /\ call' = [call EXCEPT !.pc = "decrypted",
                            !.decrypted = decrypt(call.blob.body, call.other)]
    /\ UNCHANGED <<media, cands, candSeq, tx, walk>>
    /\ UNCHANGED restVars

\* parseCredentialBlob(blob, other, provider) returns
parseCredentialBlobReturn ==
    /\ call # NoCall
    /\ call.fn = "encrypt"
    /\ call.pc \in {"stored", "decrypted"}
    /\ call' = [call EXCEPT !.pc = "resolved",
                            !.parsed = parseCredentialBlob(call.blob,
                                                           call.other,
                                                           call.provider)]
    /\ UNCHANGED <<media, cands, candSeq, tx, walk>>
    /\ UNCHANGED restVars

VaultNext ==
    \/ encryptReturn
    \/ decryptReturn
    \/ parseCredentialBlobReturn

VaultSpec == VaultInit /\ [][VaultNext]_vars

\* ------------------------------------------------ provider Search, alone
\* the query a caller of Search passes: input.Limit runs over a negative
\* value, zero and the positive caps up to MaxLimit
SearchInputs ==
    [MediaID : {1}, Title : {<<>>, <<"a">>}, MediaType : {"movie"},
     Year : {Nil}, Season : {Nil}, Episode : {Nil},
     Limit : (-1)..MaxLimit]

\* the credential fields a caller of Search passes
SearchCredentials ==
    {EmptyMap} \cup [{"token", "api_key"} -> {<<"v">>}]

\* Search(ctx, credential, input) is called on the client of a provider;
\* http is what the external catalog will answer
ProviderInit ==
    /\ AtRest
    /\ media = <<>> /\ cands = <<>> /\ candSeq = 0
    /\ tx = NoTx
    /\ walk = NoWalk
    /\ \E name \in ProviderNames : \E input \in SearchInputs :
       \E credential \in SearchCredentials : \E http \in HttpOutcomes(name) :
       \E priority \in {DefaultPriority, <<L_en>>} :
          call = [fn |-> "Search", provider |-> name, input |-> input,
                  credential |-> credential, priority |-> priority,
                  http |-> http, pc |-> "called", ret |-> Fail("")]

\* Search returns
SearchReturn ==
    /\ call # NoCall
    /\ call.fn = "Search"
    /\ call.pc = "called"
    /\ call' = [call EXCEPT
                  !.pc = "returned",
                  !.ret = Search(call.provider, call.priority, call.credential,
                                 call.input, call.http)]
    /\ UNCHANGED <<media, cands, candSeq, tx, walk>>
    /\ UNCHANGED restVars

ProviderNext == SearchReturn

ProviderSpec == ProviderInit /\ [][ProviderNext]_vars

\* --------------------------------------------------- settings, alone
\* request bodies of PUT /settings as json.Decode leaves them in a
\* model.Settings: a missing or null language_priority is the empty list
SettingsBodies ==
    [language_priority : {<<>>, <<L_en>>, <<<<>>>>, <<L_zh_cn, L_en>>},
     auto_replace_existing : BOOLEAN,
     subtitle_output_path : {<<SP>>, <<"/">>}]

\* fault injection: a handler that stores whatever it is sent
StoreAnyBody(row, payload, wellFormed, ctxDone) ==
    [status |-> 200, err |-> "", row |-> payload]

\* handleUpdateSettings on a body that decodes (wellFormed) or does not,
\* with r.Context() done or not when the UPDATE runs: the status and error
\* written and the app_settings row left behind
UpdateSettingsResponse(row, payload, wellFormed, ctxDone) ==
    IF ~wellFormed
    THEN [status |-> 400, err |-> "decode request", row |-> row]
    ELSE IF Len(payload.language_priority) = 0
    THEN [status |-> 400, err |-> "language_priority cannot be empty",
          row |-> row]
    ELSE IF TrimSpace(payload.subtitle_output_path) = <<>>
    THEN [status |-> 400, err |-> "subtitle_output_path cannot be empty",
          row |-> row]
    ELSE IF UpdateSettings(row, payload).err # ""
    THEN [status |-> 500, err |-> UpdateSettings(row, payload).err,
          row |-> row]
    ELSE IF ctxDone
    THEN [status |-> 500, err |-> "context canceled", row |-> row]
    ELSE [status |-> 200, err |-> "", row |-> UpdateSettings(row, payload).row]

\* no request on the settings has been served
NoSettingsCall ==
    [fn |-> "none", served |-> 0, payload |-> DefaultSettings,
     wellFormed |-> TRUE, before |-> DefaultSettings, status |-> 0, err |-> ""]

\* the state once main has run EnsureDefaults on a new database; the
\* subtitle output path is SUBTITLE_OUTPUT_PATH
SettingsInit ==
    /\ cfg = [AppSecret |-> <<>>]
    /\ \E path \in {<<"/">>, <<"/", "s">>} :
          settings = [DefaultSettings EXCEPT !.subtitle_output_path = path]
    /\ creds = [n \in ProviderNames |-> RawBlob(<<>>)]
    /\ files = <<>> /\ jobs = <<>> /\ scan = IdleScan /\ srch = IdleSearch
    /\ tasks = [n \in ProviderNames |-> NoTask]
    /\ wg = 0 /\ resultCh = <<>> /\ chClosed = FALSE /\ results = <<>>
    /\ allCandidates = <<>> /\ errorsByProvider = EmptyMap
    /\ response = NoResponse /\ requests = 0
    /\ media = <<>> /\ cands = <<>> /\ candSeq = 0
    /\ tx = NoTx
    /\ walk = NoWalk
    /\ call = NoSettingsCall
    /\ published = NoEvents
    /\ bus = NoBus

settingsRest ==
    <<cfg, creds, files, jobs, scan, srch, tasks, wg, resultCh, chClosed,
      results, allCandidates, errorsByProvider, response, requests, media,
      cands, candSeq, tx, walk, published, bus>>

\* PUT /settings is served
updateSettings ==
    /\ call.served < MaxRequests
    /\ \E payload \in SettingsBodies : \E wellFormed \in BOOLEAN :
       \E ctxDone \in BOOLEAN :
          LET r == UpdateSettingsResponse(settings, payload, wellFormed, ctxDone)
          IN /\ settings' = r.row
             /\ call' = [fn |-> "handleUpdateSettings",
                         served |-> call.served + 1,
                         payload |-> payload, wellFormed |-> wellFormed,
                         before |-> settings, status |-> r.status,
                         err |-> r.err]
    /\ UNCHANGED settingsRest

\* the process starts again: EnsureDefaults on the database as it is
ensureDefaultSettings ==
    /\ call.served < MaxRequests
    /\ settings' = EnsureDefaultSettings(<<settings>>)
    /\ call' = [call EXCEPT !.fn = "EnsureDefaults",
                            !.served = call.served + 1,
                            !.before = settings, !.status = 0, !.err = ""]
    /\ UNCHANGED settingsRest

SettingsNext ==
    \/ updateSettings
    \/ ensureDefaultSettings

SettingsSpec == SettingsInit /\ [][SettingsNext]_vars

\* ------------------------------------------- scan jobs, statement by statement
\* fault injection: a notifier that drops what it is given
PublishNothing(log, event, job, status) == log

\* EventBus.Publish(event, payload) as the notifier sees it: the payload
\* carries the job's id and status
Publish(log, event, job, status) ==
    Append(log, [event |-> event, job |-> job, status |-> status])

\* what scanner.Run returns to runScanJob: the first n video files, none
\* with a subtitle beside it; Run returns no error (its walk function
\* returns nil on every path)
ScanOutcomes == {Ok(RunItems(1..n, {}, 1)) : n \in 0..NumFiles}

\* a runScanJob goroutine: where it is, whether its 30 s context is past
\* the deadline, what scanner.Run and UpsertMediaItems returned, whether
\* the transaction of UpsertMediaItems committed
NewScanJob ==
    [pc |-> "created", ctxDone |-> FALSE, items |-> <<>>, err |-> "",
     inserted |-> 0, updated |-> 0, upserted |-> FALSE]

\* the state once main has run EnsureDefaults on a new database; scan holds
\* one goroutine per job
JobInit ==
    /\ cfg = [AppSecret |-> <<>>]
    /\ settings = DefaultSettings
    /\ creds = [n \in ProviderNames |-> RawBlob(<<>>)]
    /\ files = <<>> /\ srch = IdleSearch
    /\ tasks = [n \in ProviderNames |-> NoTask]
    /\ wg = 0 /\ resultCh = <<>> /\ chClosed = FALSE /\ results = <<>>
    /\ allCandidates = <<>> /\ errorsByProvider = EmptyMap
    /\ response = NoResponse
    /\ cands = <<>> /\ candSeq = 0
    /\ tx = NoTx /\ walk = NoWalk /\ call = NoCall /\ bus = NoBus
    /\ media = <<>>
    /\ jobs = <<>>
    /\ scan = <<>>
    /\ published = NoEvents
    /\ requests = 0

jobRest ==
    <<cfg, settings, creds, files, srch, tasks, wg, resultCh, chClosed,
      results, allCandidates, errorsByProvider, response, cands, candSeq,
      tx, walk, call, bus>>

\* handleScan: CreateJob; when the INSERT fails (r.Context() is done) the
\* handler answers 500 and there is no job
createJob ==
    /\ requests < MaxRequests
    /\ requests' = requests + 1
    /\ \E ok \in BOOLEAN :
          IF ok
          THEN /\ jobs' = Append(jobs, [status |-> "queued",
                                        details |-> <<"scan">>, error |-> ""])
               /\ scan' = Append(scan, NewScanJob)
          ELSE UNCHANGED <<jobs, scan>>
    /\ UNCHANGED <<media, published>>
    /\ UNCHANGED jobRest

\* handleScan: Publish("job.created", job), go runScanJob(job.ID)
publishCreated ==
    \E j \in 1..Len(scan) :
       /\ scan[j].pc = "created"
       /\ published' = Publish(published, "job.created", j, "queued")
       /\ scan' = [scan EXCEPT ![j].pc = "started"]
       /\ UNCHANGED <<media, jobs, requests>>
       /\ UNCHANGED jobRest

\* the deadline of the context of a running runScanJob passes
deadlineExceeded ==
    \E j \in 1..Len(scan) :
       /\ scan[j].pc \notin {"created", "done"}
       /\ ~scan[j].ctxDone
       /\ scan' = [scan EXCEPT ![j].ctxDone = TRUE]
       /\ UNCHANGED <<media, jobs, published, requests>>
       /\ UNCHANGED jobRest

\* runScanJob: UpdateJob(ctx, jobID, "running", "", ""), its error dropped
updateJobRunning ==
    \E j \in 1..Len(scan) :
       /\ scan[j].pc = "started"
       /\ jobs' = UpdateJob(jobs, j, "running", Nil, "", scan[j].ctxDone)
       /\ scan' = [scan EXCEPT ![j].pc = "marked"]
       /\ UNCHANGED <<media, published, requests>>
       /\ UNCHANGED jobRest

\* runScanJob: Publish("job.updated", {id, status: running})
publishRunning ==
    \E j \in 1..Len(scan) :
       /\ scan[j].pc = "marked"
       /\ published' = Publish(published, "job.updated", j, "running")
       /\ scan' = [scan EXCEPT ![j].pc = "scanning"]
       /\ UNCHANGED <<media, jobs, requests>>
       /\ UNCHANGED jobRest

\* runScanJob: scanner.Run returns
scannerRun ==
    \E j \in 1..Len(scan) : \E r \in ScanOutcomes :
       /\ scan[j].pc = "scanning"
       /\ scan' = [scan EXCEPT ![j].pc = IF r.err # "" THEN "failed"
                                         ELSE "scanned",
                               ![j].items = r.val,
                               ![j].err = r.err]
       /\ UNCHANGED <<media, jobs, published, requests>>
       /\ UNCHANGED jobRest

\* runScanJob: UpsertMediaItems(ctx, scanResult.Items) returns
upsertMediaItems ==
    \E j \in 1..Len(scan) :
       /\ scan[j].pc = "scanned"
       /\ LET r == UpsertMediaItems(media, scan[j].items, scan[j].ctxDone) IN
          /\ media' = r.media
          /\ scan' = [scan EXCEPT ![j].pc = IF r.err # "" THEN "failed"
                                            ELSE "upserted",
                                  ![j].err = r.err,
                                  ![j].inserted = r.inserted,
                                  ![j].updated = r.updated,
                                  ![j].upserted = (r.err = "")]
       /\ UNCHANGED <<jobs, published, requests>>
       /\ UNCHANGED jobRest

\* runScanJob: UpdateJob(ctx, jobID, "failed", "", err.Error()) resp.
\* UpdateJob(ctx, jobID, "completed", details, ""), its error dropped
updateJobFinal ==
    \E j \in 1..Len(scan) :
       /\ scan[j].pc \in {"failed", "upserted"}
       /\ jobs' = IF scan[j].pc = "failed"
                  THEN UpdateJob(jobs, j, "failed", Nil, scan[j].err,
                                 scan[j].ctxDone)
                  ELSE UpdateJob(jobs, j, "completed",
                                 <<scan[j].inserted, scan[j].updated>>, "",
                                 scan[j].ctxDone)
       /\ scan' = [scan EXCEPT ![j].pc = IF scan[j].pc = "failed"
                                         THEN "failedSaved"
                                         ELSE "completedSaved"]
       /\ UNCHANGED <<media, published, requests>>
       /\ UNCHANGED jobRest

\* runScanJob: the last Publish("job.updated", ...), return
publishFinal ==
    \E j \in 1..Len(scan) :
       /\ scan[j].pc \in {"failedSaved", "completedSaved"}
       /\ published' = Publish(published, "job.updated", j,
                               IF scan[j].pc = "failedSaved" THEN "failed"
                               ELSE "completed")
       /\ scan' = [scan EXCEPT ![j].pc = "done"]
       /\ UNCHANGED <<media, jobs, requests>>
       /\ UNCHANGED jobRest

JobNext ==
    \/ createJob
    \/ publishCreated
    \/ deadlineExceeded
    \/ updateJobRunning
    \/ publishRunning
    \/ scannerRun
    \/ upsertMediaItems
    \/ updateJobFinal
    \/ publishFinal

JobSpec == JobInit /\ [][JobNext]_vars

\* every goroutine that can take a step takes one; deadlines and requests
\* come as they come
JobFairness ==
    /\ WF_vars(publishCreated)
    /\ WF_vars(updateJobRunning)
    /\ WF_vars(publishRunning)
    /\ WF_vars(scannerRun)
    /\ WF_vars(upsertMediaItems)
    /\ WF_vars(updateJobFinal)
    /\ WF_vars(publishFinal)

JobFairSpec == JobSpec /\ JobFairness

\* ------------------------------------------------ credential store, alone
\* handleSaveCredential on a body that decodes (wellFormed) or does not,
\* with r.Context() done or not when the UPDATE runs: the status and error
\* written, the blob made and the provider_credentials table left behind
SaveCredentialResponse(table, secret, name, payload, nonce, wellFormed, ctxDone) ==
    LET blob == encrypt(jsonMarshal(TrimmedFields(payload)), secret, nonce) IN
    IF name \notin {"assrt", "opensubtitles"}
    THEN [status |-> 400, err |-> "provider must be assrt or opensubtitles",
          blob |-> RawBlob(<<>>), table |-> table]
    ELSE IF ~wellFormed
    THEN [status |-> 400, err |-> "decode request", blob |-> RawBlob(<<>>),
          table |-> table]
    ELSE IF DOMAIN TrimmedFields(payload) = {}
    THEN [status |-> 400, err |-> "no non-empty credential fields provided",
          blob |-> RawBlob(<<>>), table |-> table]
    ELSE IF ctxDone
    THEN [status |-> 500, err |-> "context canceled", blob |-> blob,
          table |-> table]
    ELSE [status |-> 200, err |-> "", blob |-> blob,
          table |-> SaveProviderCredential(table, name, blob)]

\* no request on the credentials has been served
NoCredentialCall ==
    [fn |-> "none", served |-> 0, name |-> "", payload |-> EmptyMap,
     wellFormed |-> TRUE, ctxDone |-> FALSE, status |-> 0, err |-> "",
     blob |-> RawBlob(<<>>)]

\* the end of the first boot: main has run EnsureDefaults on a new database
CredentialInit ==
    /\ \E c \in Configs :
          /\ cfg = [AppSecret |-> c.AppSecret]
          /\ creds = EnsureDefaultCredentials(EmptyMap, c)
    /\ settings = DefaultSettings
    /\ files = <<>> /\ jobs = <<>> /\ scan = IdleScan /\ srch = IdleSearch
    /\ tasks = [n \in ProviderNames |-> NoTask]
    /\ wg = 0 /\ resultCh = <<>> /\ chClosed = FALSE /\ results = <<>>
    /\ allCandidates = <<>> /\ errorsByProvider = EmptyMap
    /\ response = NoResponse /\ requests = 0
    /\ media = <<>> /\ cands = <<>> /\ candSeq = 0
    /\ tx = NoTx /\ walk = NoWalk
    /\ published = NoEvents /\ bus = NoBus
    /\ call = NoCredentialCall

credentialRest ==
    <<settings, files, jobs, scan, srch, tasks, wg, resultCh, chClosed,
      results, allCandidates, errorsByProvider, response, requests, media,
      cands, candSeq, tx, walk, published, bus>>

\* PUT /providers/{name}/credential is served
saveCredential ==
    /\ call.served < MaxRequests
    /\ \E name \in ProviderNames \cup {"subhd"} :
       \E payload \in CredentialPayloads : \E nonce \in Nonces :
       \E wellFormed \in BOOLEAN : \E ctxDone \in BOOLEAN :
          LET r == SaveCredentialResponse(creds, cfg.AppSecret, name, payload,
                                          nonce, wellFormed, ctxDone)
          IN /\ creds' = r.table
             /\ call' = [fn |-> "handleSaveCredential",
                         served |-> call.served + 1, name |-> name,
                         payload |-> payload, wellFormed |-> wellFormed,
                         ctxDone |-> ctxDone, status |-> r.status,
                         err |-> r.err, blob |-> r.blob]
    /\ UNCHANGED cfg
    /\ UNCHANGED credentialRest

\* the process starts again under any environment: EnsureDefaults on the
\* database as it is
ensureDefaultCredentials ==
    /\ call.served < MaxRequests
    /\ \E c \in Configs :
          /\ cfg' = [AppSecret |-> c.AppSecret]
          /\ creds' = EnsureDefaultCredentials(creds, c)
    /\ call' = [NoCredentialCall EXCEPT !.fn = "EnsureDefaults",
                                        !.served = call.served + 1]
    /\ UNCHANGED credentialRest

\* handleSearchSubtitles reads the blob of a client
getCredentialBlob ==
    /\ call.served < MaxRequests
    /\ \E name \in ProviderNames : \E ctxDone \in BOOLEAN :
          LET r == GetProviderCredentialBlob(creds, name, ctxDone) IN
          call' = [NoCredentialCall EXCEPT
                     !.fn = "GetProviderCredentialBlob",
                     !.served = call.served + 1, !.name = name,
                     !.ctxDone = ctxDone, !.err = r.err,
                     !.blob = IF r.err = "" THEN r.val ELSE RawBlob(<<>>)]
    /\ UNCHANGED <<cfg, creds>>
    /\ UNCHANGED credentialRest

CredentialNext ==
    \/ saveCredential
    \/ ensureDefaultCredentials
    \/ getCredentialBlob

CredentialSpec == CredentialInit /\ [][CredentialNext]_vars

\* ------------------------------------------------------ event bus, alone
Subscribers == 1..NumSubscribers

Publishers == 1..NumPublishers

\* fault injection: a send that waits for room instead of giving up
SendOrWait(ch, raw) ==
    IF ch.closed > 0 THEN [ok |-> FALSE, panic |-> TRUE, blocked |-> FALSE,
                           buf |-> ch.buf]
    ELSE IF Len(ch.buf) < ClientChanCap
    THEN [ok |-> TRUE, panic |-> FALSE, blocked |-> FALSE,
          buf |-> Append(ch.buf, raw)]
    ELSE [ok |-> FALSE, panic |-> FALSE, blocked |-> TRUE, buf |-> ch.buf]

\* select { case ch <- raw: default: } on channel ch: a send on a closed
\* channel panics, a send on a full one is given up
SendOrDrop(ch, raw) ==
    IF ch.closed > 0 THEN [ok |-> FALSE, panic |-> TRUE, blocked |-> FALSE,
                           buf |-> ch.buf]
    ELSE IF Len(ch.buf) < ClientChanCap
    THEN [ok |-> TRUE, panic |-> FALSE, blocked |-> FALSE,
          buf |-> Append(ch.buf, raw)]
    ELSE [ok |-> FALSE, panic |-> FALSE, blocked |-> FALSE, buf |-> ch.buf]

\* events published one after the other, before the behaviour begins, to a
\* first client of GET /events that has not read any of them yet
PriorEvents == {0, ClientChanCap - 1}

\* The event bus of a running server, with further clients of GET /events
\* and the publishing goroutines still to come.  mu: the goroutines holding the read lock (the
\* write lock is taken and released within one step).  chans[s]: the channel
\* of subscriber s, closed counting the calls of close on it.  sub[s]: where
\* handleEvents of s is, the events it has read, its calls of Unsubscribe.
\* pub[p]: a call of Publish, the event it carries, the clients its range
\* loop has still to visit.  calls: the number of Publish calls made so
\* far, made: those made since the behaviour began.  overlapped: the pairs of calls the second of which was made before
\* the first had returned.
BusInit ==
    /\ cfg = [AppSecret |-> <<>>]
    /\ settings = DefaultSettings
    /\ creds = [n \in ProviderNames |-> RawBlob(<<>>)]
    /\ files = <<>> /\ jobs = <<>> /\ scan = IdleScan /\ srch = IdleSearch
    /\ tasks = [n \in ProviderNames |-> NoTask]
    /\ wg = 0 /\ resultCh = <<>> /\ chClosed = FALSE /\ results = <<>>
    /\ allCandidates = <<>> /\ errorsByProvider = EmptyMap
    /\ response = NoResponse /\ requests = 0
    /\ published = NoEvents
    /\ media = <<>> /\ cands = <<>> /\ candSeq = 0
    /\ tx = NoTx /\ walk = NoWalk /\ call = NoCall
    /\ \E prior \in PriorEvents :
       bus = [readers |-> {},
              clients |-> IF prior > 0 THEN {1} ELSE {},
              chans |-> [s \in Subscribers |->
                           [buf |-> IF s = 1 THEN [i \in 1..prior |-> i]
                                    ELSE <<>>,
                            closed |-> 0]],
              sub |-> [s \in Subscribers |->
                         [pc |-> IF s = 1 /\ prior > 0 THEN "subscribed"
                                 ELSE "new",
                          received |-> <<>>, unsubscribes |-> 0]],
              pub |-> [p \in Publishers |->
                         [pc |-> "idle", event |-> 0, todo |-> {}]],
              calls |-> prior,
              made |-> 0,
              overlapped |-> {},
              dropped |-> {},
              panics |-> {}]

busRest ==
    <<cfg, settings, creds, files, jobs, scan, srch, tasks, wg, resultCh,
      chClosed, results, allCandidates, errorsByProvider, response, requests,
      published, media, cands, candSeq, tx, walk, call>>

\* Subscribe: make(chan []byte, 8), then the channel is put in the map
\* under the write lock
Subscribe ==
    \E s \in Subscribers :
       /\ bus.sub[s].pc = "new"
       /\ bus.readers = {}
       /\ bus' = [bus EXCEPT !.clients = @ \cup {s},
                             !.sub[s].pc = "subscribed"]
       /\ UNCHANGED busRest

\* Unsubscribe(ch), under the write lock: a channel found in the map is
\* deleted from it and closed.  handleEvents calls it once on its way out; a
\* second call is one more caller holding the same channel.
Unsubscribe ==
    \E s \in Subscribers :
       /\ bus.sub[s].pc \in {"subscribed", "unsubscribed"}
       /\ bus.sub[s].unsubscribes < 2
       /\ bus.readers = {}
       /\ bus' = [bus EXCEPT
                    !.clients = @ \ {s},
                    !.chans[s].closed = IF s \in bus.clients THEN @ + 1 ELSE @,
                    !.panics = IF s \in bus.clients /\ bus.chans[s].closed > 0
                               THEN @ \cup {"close of closed channel"} ELSE @,
                    !.sub[s].pc = "unsubscribed",
                    !.sub[s].unsubscribes = @ + 1]
       /\ UNCHANGED busRest

\* handleEvents: case msg := <-stream
receive ==
    \E s \in Subscribers :
       /\ bus.sub[s].pc = "subscribed"
       /\ bus.chans[s].buf # <<>>
       /\ bus' = [bus EXCEPT
                    !.chans[s].buf = Tail(@),
                    !.sub[s].received = Append(@, Head(bus.chans[s].buf))]
       /\ UNCHANGED busRest

\* Publish: the body is marshalled, the read lock taken; the range loop is
\* to visit the clients of the map
publishBegin ==
    \E p \in Publishers :
       /\ bus.pub[p].pc = "idle"
       /\ bus.made < MaxEvents
       /\ bus' = [bus EXCEPT
                    !.readers = @ \cup {p},
                    !.calls = @ + 1,
                    !.made = @ + 1,
                    !.overlapped = @ \cup {<<bus.pub[q].event, bus.calls + 1>> :
                                              q \in bus.readers},
                    !.pub[p] = [pc |-> "locked", event |-> bus.calls + 1,
                                todo |-> bus.clients]]
       /\ UNCHANGED busRest

\* Publish: one iteration of the range loop, on any client not yet visited
publishSend ==
    \E p \in Publishers : \E s \in bus.pub[p].todo :
       /\ bus.pub[p].pc = "locked"
       /\ LET r == SendOrDrop(bus.chans[s], bus.pub[p].event) IN
          /\ ~r.blocked
          /\ bus' = [bus EXCEPT
                       !.chans[s].buf = r.buf,
                       !.pub[p].todo = @ \ {s},
                       !.dropped = IF r.ok \/ r.panic THEN @
                                   ELSE @ \cup {<<bus.pub[p].event, s>>},
                       !.panics = IF r.panic
                                  THEN @ \cup {"send on closed channel"}
                                  ELSE @]
       /\ UNCHANGED busRest

\* Publish: the range loop is over, the deferred RUnlock runs
publishEnd ==
    \E p \in Publishers :
       /\ bus.pub[p].pc = "locked"
       /\ bus.pub[p].todo = {}
       /\ bus' = [bus EXCEPT
                    !.readers = @ \ {p},
                    !.pub[p] = [pc |-> "idle", event |-> 0, todo |-> {}]]
       /\ UNCHANGED busRest

BusNext ==
    \/ Subscribe
    \/ Unsubscribe
    \/ receive
    \/ publishBegin
    \/ publishSend
    \/ publishEnd

BusSpec == BusInit /\ [][BusNext]_vars

\* ============================================================ properties
\* a step of searchFinish: the handler leaves the range loop and answers
SearchFinishes == srch.pc = "collect" /\ srch'.pc = "idle"

\* the providers that were started (credentialed) and whose Search returned
\* a candidate list, resp. an error
Succeeded == {n \in ProviderNames : tasks[n].st = "sent" /\ tasks[n].err = ""}

Failed == {n \in ProviderNames : tasks[n].st = "sent" /\ tasks[n].err # ""}

\* the providers whose stored credential does not resolve
Unresolvable ==
    {n \in ProviderNames :
        parseCredentialBlob(creds[n], cfg.AppSecret, n).err # ""}

RECURSIVE SumLen(_, _)
SumLen(byName, names) ==
    IF names = {} THEN 0
    ELSE LET n == CHOOSE x \in names : TRUE
         IN Len(byName[n].candidates) + SumLen(byName, names \ {n})

\* C1: when a search whose request is still live leaves the fan-in loop,
\* whatever the split of the started providers into succeeding and failing
\* ones and whatever the order they completed in, it answers 200; the
\* candidates of the answer are exactly the candidates the succeeding
\* providers returned (each once, none else); the keys of the error map
\* are exactly the failing providers (together with those whose credential
\* did not resolve), each with its own error; so also when all fail.
C1_PartialFailure ==
    [][(SearchFinishes /\ ~srch.ctxDone) =>
          /\ response'.status = 200
          /\ Range(response'.candidates)
                = UNION {Range(tasks[n].candidates) : n \in Succeeded}
          /\ Len(response'.candidates) = SumLen(tasks, Succeeded)
          /\ DOMAIN response'.errors = Failed \cup Unresolvable
          /\ \A n \in Failed : response'.errors[n] = tasks[n].err
          /\ wg = 0
          /\ \A n \in ProviderNames : tasks[n].st # "running"]_vars

\* a search answered 200 with candidates of one provider while the other
\* provider's Search failed on the transport
C1_Witness ==
    /\ response.status = 200
    /\ response.candidates # <<>>
    /\ \E n \in DOMAIN response.errors :
          /\ response.errors[n] = "transport error"
          /\ \A i \in 1..Len(response.candidates) :
                response.candidates[i].provider_name # n

\* the candidates stored for a media item, in insertion order, as the
\* model.SubtitleCandidate values they were inserted from
Persisted(table, mediaID) ==
    LET rows == CandidatesOf(table, mediaID) IN
    [i \in 1..Len(rows) |->
        [media_item_id |-> rows[i].media_item_id,
         provider_name |-> rows[i].provider_name,
         candidate_id |-> rows[i].candidate_id,
         language |-> rows[i].language,
         score |-> rows[i].score]]

\* C2: the stored candidates of a media item change only when a search for
\* that item completes (answers 200), and are then exactly the merged list
\* of that search: nothing of an earlier search stays, nothing of this one
\* is missing.  So after any sequence of searches the stored candidates of
\* an item are the merged list of the latest completed search for it.
C2_LatestSearchPersisted ==
    [][\A m \in 1..NumFiles :
          IF SearchFinishes /\ srch.mediaID = m /\ response'.status = 200
          THEN Persisted(cands', m) = response'.candidates
          ELSE CandidatesOf(cands', m) = CandidatesOf(cands, m)]_vars

\* a completed search has replaced the candidates an earlier search had
\* stored for the same item (the rows with the first ids are gone) with a
\* non-empty list
C2_Witness ==
    /\ response.status = 200
    /\ response.candidates # <<>>
    /\ Persisted(cands, response.media_id) = response.candidates
    /\ cands = CandidatesOf(cands, response.media_id)
    /\ cands[1].id > 1

\* C3 (the claim as stated; the code violates it): a search for a media
\* item whose title is empty or blank is refused before the loop over the
\* providers: no provider goroutine is started for it, nothing is sent on
\* the fan-in channel, no error entry is made, and the search of such an
\* item is never answered 200 (which is the answer written after the
\* item's stored candidates were replaced).
C3_BlankTitleRejected ==
    /\ (srch.pc # "idle" /\ TrimSpace(srch.input.Title) = <<>>) =>
          /\ \A n \in ProviderNames : tasks[n].st = "none"
          /\ resultCh = <<>>
          /\ results = <<>>
          /\ errorsByProvider = EmptyMap
    /\ response.status = 200 =>
          TrimSpace(GetMediaByID(media, response.media_id, FALSE).val.title)
            # <<>>

\* C4 (the claim as stated; the code violates it): once the request
\* context of a search is cancelled, the context of every provider
\* goroutine that is still running is done as well, so that the goroutine
\* gives up and the handler need not wait for its result.
C4_CancelReachesTasks ==
    srch.ctxDone =>
        \A n \in ProviderNames : tasks[n].st = "running" => tasks[n].ctxDone

\* the candidate lists the started providers returned, concatenated in the
\* order the providers were started in (from the i-th provider on): what
\* allCandidates is when the goroutines complete in that order
RECURSIVE InStartOrder(_)
InStartOrder(i) ==
    IF i > Len(Providers) THEN <<>>
    ELSE (IF Providers[i] \in Succeeded THEN tasks[Providers[i]].candidates
          ELSE <<>>) \o InStartOrder(i + 1)

\* C5 (the claim as stated; the code violates it): the merged order of a
\* search depends on what the providers returned only, not on the order
\* their goroutines completed in.  The run in which they complete in the
\* order they were started in is always possible and answers
\* SortSlice(InStartOrder(1)); so every run with the same provider results
\* must answer that list, candidates of equal score included.
C5_MergeOrderIndependent ==
    [][(SearchFinishes /\ response'.status = 200) =>
          response'.candidates = SortSlice(InStartOrder(1))]_vars

\* scores never increase along a candidate list
Descending(list) ==
    \A i \in 1..(Len(list) - 1) : list[i].score >= list[i + 1].score

\* C6: the candidate list of every 200 answer and the stored candidate
\* list of every media item are in order of non-increasing score, in every
\* reachable state, so for every order in which the providers complete.
C6_ListsSortedByScore ==
    /\ Descending(response.candidates)
    /\ \A m \in 1..NumFiles : Descending(CandidatesOf(cands, m))

\* a search was answered with, and has stored, candidates of both
\* providers in which a provider's second item stands before its first:
\* the sort moved it up past lower scores
C6_Witness ==
    /\ response.status = 200
    /\ Persisted(cands, response.media_id) = response.candidates
    /\ \E i \in 1..Len(response.candidates) :
       \E j \in 1..Len(response.candidates) :
       \E k \in 1..Len(response.candidates) :
          /\ i < j
          /\ response.candidates[i].provider_name
                = response.candidates[j].provider_name
          /\ response.candidates[i].candidate_id
                > response.candidates[j].candidate_id
          /\ response.candidates[i].score > response.candidates[j].score
          /\ response.candidates[k].provider_name
                # response.candidates[i].provider_name

\* a step of searchResolve, for the provider it is about
ResolveStep(name) ==
    /\ srch.pc = "resolve"
    /\ srch'.idx = srch.idx + 1
    /\ name = Providers[srch.idx]

\* the stored blob is the empty string or blanks only
BlankBlob(blob) ==
    /\ blob.prefix = ""
    /\ blob.body.kind = "text"
    /\ \A i \in 1..Len(blob.body.text) : blob.body.text[i] = SP

Blank == {n \in ProviderNames : BlankBlob(creds[n])}

\* C7: in a search whose request is live, a provider whose stored blob is
\* empty or blank resolves to the empty credential map; the handler passes
\* it by: no goroutine is started for it and nothing is sent on the fan-in
\* channel; the answer has no error entry and no candidate of it.  When
\* every provider is so, the answer is 200 with an empty candidate list
\* and an empty error map.
C7_BlankBlobSkipsProvider ==
    [][/\ \A n \in Blank :
            (ResolveStep(n) /\ ~srch.ctxDone) =>
               /\ parseCredentialBlob(creds[n], cfg.AppSecret, n) = Ok(EmptyMap)
               /\ tasks' = tasks
               /\ wg' = wg
               /\ resultCh' = resultCh
       /\ (SearchFinishes /\ ~srch.ctxDone) =>
            /\ \A n \in Blank :
                  /\ tasks[n].st = "none"
                  /\ n \notin DOMAIN response'.errors
                  /\ \A i \in 1..Len(response'.candidates) :
                        response'.candidates[i].provider_name # n
            /\ Blank = ProviderNames =>
                  /\ response'.status = 200
                  /\ response'.candidates = <<>>
                  /\ response'.errors = EmptyMap
                  /\ response'.providerRun = 0]_vars

\* a search was answered 200 with candidates and no error entry while the
\* stored blob of assrt is a blank, not empty, string
C7_Witness ==
    /\ response.status = 200
    /\ response.candidates # <<>>
    /\ response.errors = EmptyMap
    /\ "assrt" \in Blank
    /\ creds["assrt"].body.text # <<>>

\* the stored blob is encrypted and the running process cannot decrypt it:
\* it has no APP_SECRET, or another one than the blob was sealed under
Undecryptable ==
    {n \in ProviderNames :
        /\ creds[n].prefix = "enc:"
        /\ \/ TrimSpace(cfg.AppSecret) = <<>>
           \/ creds[n].body.b64.ct.key # Sum256(cfg.AppSecret)}

\* the stored credential resolves to a non-empty map
Credentialed ==
    {n \in ProviderNames :
        /\ parseCredentialBlob(creds[n], cfg.AppSecret, n).err = ""
        /\ DOMAIN parseCredentialBlob(creds[n], cfg.AppSecret, n).val # {}}

\* C8: when the credential of a provider cannot be resolved (the blob
\* cannot be read because the request context is done, or cannot be
\* decrypted), no goroutine is started for the provider and an error result
\* under its name is sent to the fan-in channel; every other provider whose
\* credential resolves is still started; and the 200 answer has an error
\* entry for each undecryptable provider and holds the candidates of every
\* started provider whose Search succeeded.
C8_ResolveFailureIsolated ==
    [][/\ \A n \in ProviderNames :
            (ResolveStep(n) /\ (srch.ctxDone \/ n \in Undecryptable)) =>
               /\ tasks' = tasks
               /\ wg' = wg
               /\ Len(resultCh') = Len(resultCh) + 1
               /\ resultCh'[Len(resultCh')].Name = n
               /\ resultCh'[Len(resultCh')].Err # ""
               /\ resultCh'[Len(resultCh')].Candidates = <<>>
       /\ \A n \in Credentialed :
            (ResolveStep(n) /\ ~srch.ctxDone) =>
               /\ tasks'[n].st = "running"
               /\ wg' = wg + 1
       /\ (SearchFinishes /\ ~srch.ctxDone) =>
            /\ response'.status = 200
            /\ \A n \in Undecryptable :
                  /\ n \in DOMAIN response'.errors
                  /\ tasks[n].st = "none"
            /\ \A n \in Credentialed : tasks[n].st = "sent"
            /\ \A n \in Succeeded :
                  Range(tasks[n].candidates)
                     \subseteq Range(response'.candidates)]_vars

\* a search was answered 200 with an error entry for a provider whose blob
\* the process cannot decrypt and with candidates of the other provider
C8_Witness ==
    /\ response.status = 200
    /\ response.candidates # <<>>
    /\ \E n \in Undecryptable :
          /\ n \in DOMAIN response.errors
          /\ response.errors[n] = "cipher: message authentication failed"

\* a step of runScanJobUpsert
UpsertStep == scan.pc = "scanned" /\ scan'.pc = "idle"

\* the rows of media_items with one of the given paths
RowsAt(rows, paths) == {i \in 1..Len(rows) : rows[i].file_path \in paths}

\* C9: whenever the scan job upserts the list the scanner returned (its
\* paths are distinct) into the store as it is, and the transaction is not
\* refused, UpsertMediaItems reports as inserted the number of the list's
\* paths that had no row before and as updated the number that had one,
\* and the job's details carry these numbers; upserting the same list once
\* more into the resulting store reports inserted 0 and updated N (the
\* length of the list) and leaves N rows with those paths.
C9_UpsertCounts ==
    [][UpsertStep =>
          LET first == UpsertMediaItems(media, scan.items, FALSE)
              second == UpsertMediaItems(first.media, scan.items, FALSE)
              paths == Paths(scan.items)
              N == Len(scan.items)
          IN /\ Cardinality(paths) = N
             /\ first.err = ""
             /\ first.inserted = Cardinality(paths \ Paths(media))
             /\ first.updated = Cardinality(paths \cap Paths(media))
             /\ media' \in {media, first.media}
             /\ jobs'[scan.job].status = "completed" =>
                   /\ media' = first.media
                   /\ jobs'[scan.job].details
                         = <<first.inserted, first.updated>>
             /\ second.err = ""
             /\ second.inserted = 0
             /\ second.updated = N
             /\ Cardinality(RowsAt(second.media, paths)) = N
             /\ Len(second.media) = Len(first.media)]_vars

\* two scan jobs have completed on a new database, both on every file: the
\* first reports all inserted, the second none inserted and all updated,
\* and the table has one row per file
C9_Witness ==
    /\ Len(jobs) = 2
    /\ jobs[1].status = "completed"
    /\ jobs[1].details = <<NumFiles, 0>>
    /\ jobs[2].status = "completed"
    /\ jobs[2].details = <<0, NumFiles>>
    /\ Len(media) = NumFiles

\* C10: in every step of the system (scan upsert, search, credential save,
\* subtitle file save, settings update, restart) media_items has no two
\* rows with the same file_path, before and after, and every path that had
\* a row before the step has one after it.
C10_PathUniqueAndKept ==
    [][/\ Cardinality(Paths(media)) = Len(media)
       /\ Cardinality(Paths(media')) = Len(media')
       /\ Paths(media) \subseteq Paths(media')]_vars

\* every file has been scanned again (a completed job reports updates
\* only) and a subtitle file has been saved, and the table has one row per
\* file
C10_Witness ==
    /\ Len(media) = NumFiles
    /\ Cardinality(Paths(media)) = NumFiles
    /\ \E j \in 1..Len(jobs) :
          /\ jobs[j].status = "completed"
          /\ jobs[j].details = <<0, NumFiles>>
    /\ files # <<>>

\* ------------------------------------------------------------------ C11
\* a step in which the call of caller c returns
Returns(c) == tx.ops[c].pc # "done" /\ tx'.ops[c].pc = "done"

\* C11: when UpsertMediaItems or ReplaceSubtitleCandidates fails (at BeginTx,
\* at a statement inside the transaction, or at the commit), the call returns
\* a non-empty error and the media items, the candidates and the id sequence
\* are what they were when the call began its transaction; the call reports
\* no inserted or updated rows.
C11_FailedCallChangesNothing ==
    [][\A c \in Callers :
          Returns(c) /\ tx'.ops[c].fault # ""
            => /\ tx'.ops[c].err # ""
               /\ tx'.ops[c].inserted = 0 /\ tx'.ops[c].updated = 0
               /\ IF tx'.ops[c].fault = "begin"
                  THEN <<media', cands', candSeq'>> = <<media, cands, candSeq>>
                  ELSE /\ tx.holder = c
                       /\ media' = tx.journal.media
                       /\ cands' = tx.journal.cands
                       /\ candSeq' = tx.journal.candSeq]_vars

\* a replace that deleted the stored candidates of item 1, inserted its own
\* and failed at the commit, and an upsert that failed at a later statement:
\* the tables are the initial ones, which held candidates
C11_Witness ==
    /\ \E c \in Callers :
          /\ tx.ops[c].pc = "done" /\ tx.ops[c].op = "replace"
          /\ tx.ops[c].fault = "commit" /\ tx.ops[c].i >= 2
          /\ tx.ops[c].mediaID = 1
    /\ \E c \in Callers :
          /\ tx.ops[c].pc = "done" /\ tx.ops[c].op = "upsert"
          /\ tx.ops[c].fault = "statement" /\ tx.ops[c].i >= 1
    /\ tx.initial.cands # <<>>
    /\ Store = tx.initial

\* ------------------------------------------------------------------ C12
\* the whole call, applied to the tables in one piece
ApplyCall(store, o) ==
    IF o.op = "upsert"
    THEN [store EXCEPT !.media = UpsertMediaItems(@, o.items, FALSE).media]
    ELSE LET r == ReplaceSubtitleCandidates(store.cands, store.candSeq,
                                            o.mediaID, o.items, FALSE)
         IN [store EXCEPT !.cands = r.table, !.candSeq = r.seq]

\* the tables after the calls of the callers in S, one after another, in
\* every order
RECURSIVE Serial(_, _)
Serial(store, S) ==
    IF S = {} THEN {store}
    ELSE UNION {Serial(ApplyCall(store, tx.ops[c]), S \ {c}) : c \in S}

\* callers whose upsert or replace has committed
Committed ==
    {c \in Callers : /\ tx.ops[c].pc = "done" /\ tx.ops[c].fault = ""
                     /\ tx.ops[c].op \in {"upsert", "replace"}}

\* what identifies the candidates of a list, in order
ListOf(rows) ==
    [i \in 1..Len(rows) |->
        [provider_name |-> rows[i].provider_name,
         candidate_id |-> rows[i].candidate_id,
         language |-> rows[i].language, score |-> rows[i].score]]

\* the complete lists of the committed replace calls for item m
CommittedLists(m) ==
    {ListOf(tx.ops[c].items) :
        c \in {d \in Committed : tx.ops[d].op = "replace"
                                   /\ tx.ops[d].mediaID = m}}

\* C12: transactions of concurrent calls do not interleave.  At most one
\* call is inside its transaction; whenever no transaction is open the
\* tables are those of the committed calls applied whole, one after another
\* in some order; the stored candidates of an item are its initial ones or
\* the complete list of one committed replace, never a mixture; and what a
\* reader got is such a complete list, never the state between the DELETE
\* and the INSERTs.
C12_TransactionsSerialized ==
    /\ Cardinality({c \in Callers : tx.ops[c].pc = "intx"}) <= 1
    /\ tx.holder = 0 =>
          /\ Store \in Serial(tx.initial, Committed)
          /\ \A m \in 1..NumFiles :
                ListOf(CandidatesOf(cands, m))
                   \in IF CommittedLists(m) = {}
                       THEN {ListOf(CandidatesOf(tx.initial.cands, m))}
                       ELSE CommittedLists(m)
    /\ \A c \in Callers :
          tx.ops[c].pc = "done" /\ tx.ops[c].op = "list" =>
             ListOf(tx.ops[c].seen)
                \in {ListOf(CandidatesOf(tx.initial.cands, tx.ops[c].mediaID))}
                       \cup CommittedLists(tx.ops[c].mediaID)

\* two replace calls for item 1 with different lists of two candidates, one
\* of them waiting for the connection when the other began, both committed:
\* the stored candidates are the complete list of one of them
C12_Witness ==
    /\ \A c \in Callers :
          /\ c \in Committed /\ tx.ops[c].op = "replace"
          /\ tx.ops[c].mediaID = 1 /\ Len(tx.ops[c].items) = 2
    /\ \E c \in Callers : tx.ops[c].raced
    /\ Cardinality(CommittedLists(1)) = 2
    /\ ListOf(CandidatesOf(cands, 1)) \in CommittedLists(1)

\* ------------------------------------------------------------------ C13
\* the paths of the video files the walk of root visits
VideosUnder(root, denied) ==
    LET calls == WalkCalls(root, StatIsDir(root), denied)
    IN {Abs(calls[k].path) :
          k \in {j \in 1..Len(calls) :
                   /\ calls[j].walkErr = "" /\ ~calls[j].isDir
                   /\ ToLower(Ext(calls[j].name)) \in videoExtSet}}

ResultPaths == {walk.result.Items[k].FilePath : k \in 1..Len(walk.result.Items)}

\* the roots of the list that exist
ExistingRoots ==
    {r \in {TrimSpace(walk.paths[k]) : k \in 1..Len(walk.paths)} :
        r # <<>> /\ StatOk(r)}

\* C13: when the walk of a root met an error, Run returns an error that
\* wraps the path of that root, and its result still holds the records of
\* the files under the other roots.
C13_FailedRootIsolated ==
    walk.pc = "done" /\ walk.failed # {} =>
       /\ walk.err # Nil
       /\ walk.err[1].root \in walk.failed
       /\ \A r \in ExistingRoots \ walk.failed :
             VideosUnder(r, walk.denied) \subseteq ResultPaths

\* ------------------------------------------------------------------ C14
StrictlyIncreasing(items) ==
    \A k \in 1..(Len(items) - 1) :
       StringLess(items[k].FilePath, items[k + 1].FilePath)

\* the next pass of the loop is for a root that does not exist
AtMissingRoot ==
    /\ walk.pc = "loop" /\ walk.i < Len(walk.paths)
    /\ TrimSpace(walk.paths[walk.i + 1]) # <<>>
    /\ ~StatOk(TrimSpace(walk.paths[walk.i + 1]))

\* C14: for every list of roots the items Run returns are in strictly
\* increasing order of FilePath (sorted, no path twice), and the pass of the
\* loop for a missing root adds no item and ends with no error.
C14_OutputStrictlySorted ==
    [][/\ AtMissingRoot =>
            /\ walk'.items = walk.items
            /\ walk'.err = Nil
            /\ walk'.pc = "loop"
       /\ walk'.pc = "done" /\ walk'.err = Nil =>
            /\ StrictlyIncreasing(walk'.result.Items)
            /\ ResultPaths' = UNION {VideosUnder(r, walk.denied) :
                                       r \in ExistingRoots}]_vars

\* a finished scan of four roots of which one is missing, two name the same
\* directory and one lies inside another, where the sort had to reorder the
\* items found
C14_Witness ==
    /\ walk.pc = "done" /\ walk.err = Nil
    /\ Len(walk.paths) = 4
    /\ \E k \in 1..4 : ~StatOk(TrimSpace(walk.paths[k]))
                         /\ TrimSpace(walk.paths[k]) # <<>>
    /\ \E j, k \in 1..4 :
          /\ j < k
          /\ Abs(TrimSpace(walk.paths[j])) = Abs(TrimSpace(walk.paths[k]))
          /\ StatOk(TrimSpace(walk.paths[j]))
    /\ \E j, k \in 1..4 :
          /\ TrimSpace(walk.paths[j]) # TrimSpace(walk.paths[k])
          /\ StatOk(TrimSpace(walk.paths[j])) /\ StatOk(TrimSpace(walk.paths[k]))
          /\ HasPrefix(Abs(TrimSpace(walk.paths[k])),
                       Abs(TrimSpace(walk.paths[j])) \o <<"/">>)
    /\ Len(walk.result.Items) >= 2
    /\ walk.result.Items # walk.items

\* ------------------------------------------------------------------ C15
\* the file name of the call without its extension
NamePart == TrimSuffix(call.filename, Ext(call.filename))

\* A season/episode marker of name n at position p with ls season digits
\* and le episode digits: S, digits, E, digits, in any letter case, after a
\* separator or at the start; when bounded, also before a separator or at
\* the end.
MarkerAt(n, p, ls, le, bounded) ==
    /\ p + ls + le + 1 <= Len(n)
    /\ (p = 1 \/ n[p - 1] \in SepClass)
    /\ n[p] \in {"s", "S"}
    /\ \A j \in (p + 1)..(p + ls) : IsDigit(n[j])
    /\ n[p + ls + 1] \in {"e", "E"}
    /\ \A j \in (p + ls + 2)..(p + ls + le + 1) : IsDigit(n[j])
    /\ bounded => (p + ls + le + 1 = Len(n) \/ n[p + ls + le + 2] \in SepClass)

Markers(n, bounded) ==
    {m \in (1..Len(n)) \X (1..2) \X (1..2) :
        MarkerAt(n, m[1], m[2], m[3], bounded)}

\* the leftmost marker, with the longer episode group when two fit
FirstMarker(n, bounded) ==
    CHOOSE m \in Markers(n, bounded) :
       \A o \in Markers(n, bounded) :
          m[1] < o[1] \/ (m[1] = o[1] /\ m[3] >= o[3])

\* the number one or two decimal digits write
DigitsValue(ds) ==
    LET val(c) == CHOOSE d \in 0..9 : Digits[d + 1] = c
    IN IF Len(ds) = 1 THEN val(ds[1]) ELSE 10 * val(ds[1]) + val(ds[2])

SeasonOf(n, m) == DigitsValue(SubSeq(n, m[1] + 1, m[1] + m[2]))

EpisodeOf(n, m) ==
    DigitsValue(SubSeq(n, m[1] + m[2] + 2, m[1] + m[2] + m[3] + 1))

\* the normalized text before the marker
BeforeMarker(n, m) == Normalize(SubSeq(n, 1, m[1] - 1))

TitleFrom(base, year, name) ==
    LET stripped == IF year = Nil THEN base
                    ELSE TrimSpace(ReplaceAll(base, Itoa(year[1]), <<>>))
    IN IF stripped = <<>> THEN name ELSE stripped

SameCode(x, y) == toLowerTrim(x) = toLowerTrim(y)

\* 0-based positions of the entries of the list equal to the code
PositionsOf(priority, lang) ==
    {k \in 0..(Len(priority) - 1) : SameCode(priority[k + 1], lang)}

InList(priority, lang) == PositionsOf(priority, lang) # {}

FirstPosition(priority, lang) ==
    CHOOSE k \in PositionsOf(priority, lang) :
       \A j \in PositionsOf(priority, lang) : k <= j

\* C17: ScoreByLanguage returns (length of the list - 0-based index of the
\* first entry equal to the code, trimmed and without regard to case) * 10
\* when the code is in the list; otherwise 1 when the trimmed, lower-cased
\* code is "unknown" or empty, and 3 for any other code.
C17_ScoreByLanguageValue ==
    \A k \in 1..Len(call.rets) :
       LET lang == call.langs[k] IN
       call.rets[k] =
          IF InList(call.priority, lang)
          THEN (Len(call.priority) - FirstPosition(call.priority, lang)) * 10
          ELSE IF SameCode(lang, L_unknown) \/ SameCode(lang, <<>>) THEN 1
          ELSE 3

\* a list that names the code twice, the second time in another spelling:
\* the score is that of the first position; the other code is not listed
\* and scores 3
C17_Witness ==
    /\ call.pc = "returned"
    /\ Len(call.priority) = 3
    /\ Cardinality(PositionsOf(call.priority, call.langs[1])) = 2
    /\ call.priority[1] # call.priority[3]
    /\ FirstPosition(call.priority, call.langs[1]) = 0
    /\ call.rets[1] = 30
    /\ ~InList(call.priority, call.langs[2])
    /\ call.rets[2] = 3

\* ------------------------------------------------------------------ C18
\* the first code of the call stands at an earlier position of the list
\* than the second one, and they are different codes
EarlierEntry ==
    \E i \in PositionsOf(call.priority, call.langs[1]) :
    \E j \in PositionsOf(call.priority, call.langs[2]) :
       i < j /\ ~SameCode(call.langs[1], call.langs[2])

\* C18 as stated: a code of the list scores strictly higher than a code
\* that is not in the list, and an entry of the list scores strictly higher
\* than a different entry that stands later in the list.
C18_EarlierEntryScoresHigher ==
    call.pc = "returned" =>
       /\ InList(call.priority, call.langs[1])
            /\ ~InList(call.priority, call.langs[2])
          => call.rets[1] > call.rets[2]
       /\ EarlierEntry => call.rets[1] > call.rets[2]

\* C18, amended: a code of the list scores strictly higher than a code that
\* is not in the list, and of two codes of the list the one whose first
\* entry stands earlier scores strictly higher (so in a list that names no
\* code twice an earlier entry scores higher than a later one).
C18_FirstEntryDecides ==
    call.pc = "returned" =>
       /\ InList(call.priority, call.langs[1])
            /\ ~InList(call.priority, call.langs[2])
          => call.rets[1] > call.rets[2]
       /\ InList(call.priority, call.langs[1])
            /\ InList(call.priority, call.langs[2])
            /\ FirstPosition(call.priority, call.langs[1])
                 < FirstPosition(call.priority, call.langs[2])
          => call.rets[1] > call.rets[2]

\* a list that names the first code before and after the second one: the
\* first code scores 30, the second 20
C18_Witness ==
    /\ call.pc = "returned"
    /\ Len(call.priority) = 3
    /\ PositionsOf(call.priority, call.langs[1]) = {0, 2}
    /\ PositionsOf(call.priority, call.langs[2]) = {1}
    /\ call.rets = <<30, 20>>

\* ------------------------------------------------------------------ C19
\* the plaintext of the call is a credential payload as the save handler
\* encodes it
IsCredentialPayload == call.plaintext.kind = "json"

\* C19: a credential payload saved while the secret is empty is stored as a
\* plain: blob, and resolving that blob with an empty secret gives the saved
\* field map with no error, for either provider.
C19_PlainRoundTrip ==
    IsCredentialPayload /\ call.secret = <<>> =>
       /\ call.pc # "called" => call.blob.prefix = "plain:"
       /\ call.pc = "resolved" /\ call.other = <<>> =>
             /\ call.parsed.err = ""
             /\ call.parsed.val = call.plaintext.obj

\* a payload of two fields saved and resolved with the empty secret
C19_Witness ==
    /\ IsCredentialPayload
    /\ call.secret = <<>> /\ call.other = <<>>
    /\ call.pc = "resolved"
    /\ call.blob.prefix = "plain:"
    /\ DOMAIN call.parsed.val = {"token", "api_key"}
    /\ call.parsed.val = call.plaintext.obj

C21_SearchCapsResult ==
    (/\ call # NoCall
     /\ call.fn = "Search"
     /\ call.pc = "returned"
     /\ call.input.Limit > 0
     /\ call.ret.err = "")
        => Len(call.ret.val) <= call.input.Limit

\* ------------------------------------------------------------------- C22
\* C22: after any sequence of settings updates, accepted or rejected, the
\* stored language-priority list is non-empty; an update that carried an
\* empty list was answered with an error and left the stored settings as
\* they were.
C22_PriorityListNeverEmpty ==
    /\ Len(settings.language_priority) > 0
    /\ (/\ call.fn = "handleUpdateSettings"
        /\ call.wellFormed
        /\ Len(call.payload.language_priority) = 0)
          => /\ call.status >= 400
             /\ call.err # ""
             /\ settings = call.before

\* an update with an empty list was rejected after an earlier update had
\* been accepted
C22_Witness ==
    /\ call.fn = "handleUpdateSettings"
    /\ call.served = 2
    /\ call.wellFormed
    /\ Len(call.payload.language_priority) = 0
    /\ call.err = "language_priority cannot be empty"
    /\ settings # DefaultSettings
    /\ settings.language_priority = <<L_zh_cn, L_en>>

\* ------------------------------------------------------------------- C23
\* C23: the stored auto-replace flag is false in every reachable state.
C23_AutoReplaceStaysFalse == settings.auto_replace_existing = FALSE

\* ------------------------------------------------------------------- C24
\* the statuses published for job j, in the order of the calls of Publish
RECURSIVE StatusesOf(_, _)
StatusesOf(log, j) ==
    IF log = <<>> THEN <<>>
    ELSE IF Head(log).job = j
    THEN <<Head(log).status>> \o StatusesOf(Tail(log), j)
    ELSE StatusesOf(Tail(log), j)

IsPrefix(s, t) == Len(s) <= Len(t) /\ s = SubSeq(t, 1, Len(s))

\* C24: for every scan job the statuses published occur in the order queued,
\* running, then exactly one of completed or failed, and nothing after it;
\* a job that published failed has upserted no media items.
C24_StatusOrder ==
    \A j \in 1..Len(scan) :
       LET st == StatusesOf(published, j) IN
       /\ \/ IsPrefix(st, <<"queued", "running", "completed">>)
          \/ IsPrefix(st, <<"queued", "running", "failed">>)
       /\ scan[j].pc = "done" => Len(st) = 3
       /\ (Len(st) = 3 /\ st[3] = "failed") => ~scan[j].upserted
       /\ (Len(st) = 3 /\ st[3] = "completed") => scan[j].upserted

\* two jobs have run to their end side by side: their events alternate in
\* the log, one completed and one failed
C24_Witness ==
    /\ Len(scan) = 2
    /\ scan[1].pc = "done" /\ scan[2].pc = "done"
    /\ StatusesOf(published, 1) = <<"queued", "running", "failed">>
    /\ StatusesOf(published, 2) = <<"queued", "running", "completed">>
    /\ published[2].job = 2
    /\ published[3].job = 1
    /\ published[5].job = 1
    /\ published[6].job = 2

\* ------------------------------------------------------------------- C29
\* the status the jobs table holds for job j is a terminal one
PersistedTerminal(j) ==
    j <= Len(jobs) /\ jobs[j].status \in {"completed", "failed"}

\* C29: every scan job that starts running eventually has the persisted
\* status completed or failed, also when the scan outlives the job's
\* context or a status update fails, and once its terminal status has been
\* published the persisted status is that status.
C29_JobReachesTerminalStatus ==
    /\ \A j \in 1..MaxRequests :
          (j <= Len(scan) /\ scan[j].pc = "started") ~> PersistedTerminal(j)
    /\ [](\A j \in 1..Len(scan) :
             scan[j].pc = "done" =>
                jobs[j].status = StatusesOf(published, j)[3])

\* ------------------------------------------------------------------- C25
\* the text the year is stripped from: the normalized text before the
\* leftmost marker when there is some, else the whole normalized name
TitleBase ==
    IF Markers(NamePart, FALSE) # {}
         /\ BeforeMarker(NamePart, FirstMarker(NamePart, FALSE)) # <<>>
    THEN BeforeMarker(NamePart, FirstMarker(NamePart, FALSE))
    ELSE Normalize(NamePart)

\* stripping the year the parser found leaves nothing of the title
StrippedEmpty ==
    /\ call.ret.year # Nil
    /\ TrimSpace(ReplaceAll(TitleBase, Itoa(call.ret.year[1]), <<>>)) = <<>>

\* C25: when stripping the year token leaves the title empty, the parser
\* returns the normalized name (separators replaced by single spaces) as the
\* title; and the title is never empty for a file name whose name part
\* holds at least one character that is not a separator.
C25_FallbackIsNormalizedName ==
    call.pc = "returned" =>
       /\ StrippedEmpty => call.ret.title = Normalize(NamePart)
       /\ Normalize(NamePart) # <<>> => call.ret.title # <<>>

\* ------------------------------------------------------------------- C26
\* C26: from the end of the first boot on, after any sequence of credential
\* saves, restarts and searches, the credential store holds a row for every
\* known provider; reading a known provider's blob does not fail for a
\* missing row; and a save for a known provider that is carried out leaves
\* the blob it made in the store.
C26_RowForEveryProvider ==
    /\ ProviderNames \subseteq DOMAIN creds
    /\ call.fn = "GetProviderCredentialBlob" =>
          /\ call.err # "sql: no rows in result set"
          /\ ~call.ctxDone => call.err = "" /\ call.blob = creds[call.name]
    /\ (/\ call.fn = "handleSaveCredential"
        /\ call.name \in ProviderNames
        /\ call.wellFormed
        /\ DOMAIN TrimmedFields(call.payload) # {}
        /\ ~call.ctxDone)
          => /\ call.status = 200
             /\ creds[call.name] = call.blob
             /\ call.blob.prefix \in {"plain:", "enc:"}

\* the second request served is a save for assrt that was carried out: the
\* row holds the new blob, and the row of opensubtitles, never saved, is
\* there with the empty blob
C26_Witness ==
    /\ call.fn = "handleSaveCredential"
    /\ call.served = 2
    /\ call.status = 200
    /\ call.name = "assrt"
    /\ creds["assrt"] = call.blob
    /\ creds["opensubtitles"] = RawBlob(<<>>)

\* ------------------------------------------------------------------- C27
\* Every step of the handler and of its goroutines that can be taken is
\* taken: every provider Search call returns, the closer and the range loop
\* run.  Requests and cancellations come as they come.
SearchFairness ==
    /\ WF_vars(searchResolve)
    /\ WF_vars(taskReturn)
    /\ WF_vars(closeResultCh)
    /\ WF_vars(searchCollect)
    /\ WF_vars(searchFinish)

\* the server serving one search request
SearchNext ==
    \/ searchBegin
    \/ cancelRequest
    \/ searchResolve
    \/ taskReturn
    \/ closeResultCh
    \/ searchCollect
    \/ searchFinish

\* the server has booted on any database and has one more request to serve
SearchInit ==
    /\ \E c \in Configs : \E prior \in PriorDatabases :
          /\ cfg = [AppSecret |-> c.AppSecret]
          /\ creds = EnsureDefaultCredentials(prior.creds, c)
          /\ media = prior.media
    /\ settings = EnsureDefaultSettings(<<>>)
    /\ cands = <<>> /\ candSeq = 0 /\ files = <<>> /\ jobs = <<>>
    /\ scan = IdleScan /\ srch = IdleSearch
    /\ tasks = [n \in ProviderNames |-> NoTask]
    /\ wg = 0 /\ resultCh = <<>> /\ chClosed = FALSE /\ results = <<>>
    /\ allCandidates = <<>> /\ errorsByProvider = EmptyMap
    /\ response = NoResponse
    /\ requests = MaxRequests - 1
    /\ tx = NoTx /\ walk = NoWalk /\ call = NoCall
    /\ published = NoEvents /\ bus = NoBus

SearchFairSpec == SearchInit /\ [][SearchNext]_vars /\ SearchFairness

\* the outcomes of provider name that were sent on resultCh: those still in
\* its buffer and those the range loop has taken
RECURSIVE OutcomesOf(_, _)
OutcomesOf(s, name) ==
    IF s = <<>> THEN 0
    ELSE (IF Head(s).Name = name THEN 1 ELSE 0) + OutcomesOf(Tail(s), name)

Delivered(name) == OutcomesOf(results, name) + OutcomesOf(resultCh, name)

\* C27: the search handler never blocks for ever on the fan-in channel.
\* While a search is served: no provider has more than one outcome on the
\* channel, a provider whose goroutine is running has none yet and one
\* whose goroutine has sent has exactly one; the loop over the clients is
\* never blocked by a full channel; the channel is closed only when no
\* launched goroutine has its send ahead of it; and with every Search call
\* returning the handler reaches its end.
C27_SearchNeverBlocks ==
    /\ [](srch.pc \in {"resolve", "collect"} =>
            /\ \A n \in ProviderNames : Delivered(n) <= 1
            /\ \A n \in ProviderNames :
                  tasks[n].st = "running" => Delivered(n) = 0
            /\ \A n \in ProviderNames :
                  tasks[n].st = "sent" => Delivered(n) = 1
            /\ Len(resultCh) <= ResultChCap
            /\ srch.pc = "resolve" => ENABLED searchResolve
            /\ chClosed => \A n \in ProviderNames : tasks[n].st # "running"
            /\ chClosed => wg = 0)
    /\ (srch.pc \in {"resolve", "collect"}) ~> (srch.pc = "idle")

\* both credentials failed to resolve: the handler itself filled the channel
\* to its capacity before the range loop started, then the channel was
\* closed with both outcomes still in it
C27_Witness ==
    /\ srch.pc = "collect"
    /\ chClosed
    /\ Len(resultCh) = ResultChCap
    /\ \A n \in ProviderNames : tasks[n].st = "none" /\ Delivered(n) = 1

\* ------------------------------------------------------------------- C28
\* what subscriber s has been sent and not lost: the events it has read,
\* then those waiting in its channel
Stream(s) == bus.sub[s].received \o bus.chans[s].buf

\* a call of Publish with a client still to visit can take its next step
PublishNeverBlocks ==
    \A p \in Publishers :
       bus.pub[p].pc = "locked" =>
          \A s \in bus.pub[p].todo :
             ~SendOrDrop(bus.chans[s], bus.pub[p].event).blocked

\* no send on a closed channel and no second close; a channel is closed at
\* most once, also after two calls of Unsubscribe, and a closed channel is
\* not in the map
ClosedAtMostOnce ==
    /\ bus.panics = {}
    /\ \A s \in Subscribers :
          /\ bus.chans[s].closed <= 1
          /\ bus.chans[s].closed = 1 => s \notin bus.clients
          /\ bus.sub[s].unsubscribes > 0 => bus.chans[s].closed = 1

\* an event is given up exactly when the channel it goes to is full, and the
\* call of Publish goes on to its next client; an event given up is not
\* delivered later
FullBufferLosesEvent ==
    /\ [](\A s \in Subscribers :
            /\ Len(bus.chans[s].buf) <= ClientChanCap
            /\ \A e \in 1..bus.calls :
                  <<e, s>> \in bus.dropped =>
                     \A i \in 1..Len(Stream(s)) : Stream(s)[i] # e)
    /\ [][\A p \in Publishers : \A s \in Subscribers :
             (/\ bus.pub[p].pc = "locked"
              /\ s \in bus.pub[p].todo
              /\ bus'.pub[p].pc = "locked"
              /\ s \notin bus'.pub[p].todo)
                => IF Len(bus.chans[s].buf) = ClientChanCap
                   THEN /\ bus'.chans[s].buf = bus.chans[s].buf
                        /\ <<bus.pub[p].event, s>> \in bus'.dropped
                   ELSE /\ bus'.chans[s].buf =
                              Append(bus.chans[s].buf, bus.pub[p].event)
                        /\ bus'.dropped = bus.dropped]_vars

\* C28 as stated: under every interleaving of Subscribe, Unsubscribe and
\* Publish, Publish never blocks and never sends on a closed channel, a
\* channel is closed at most once, a subscriber whose buffer of 8 is full
\* loses the event, and the events of every subscriber are in the order in
\* which the calls of Publish were made.
C28_ArriveInPublishOrder ==
    /\ []PublishNeverBlocks
    /\ []ClosedAtMostOnce
    /\ FullBufferLosesEvent
    /\ [](\A s \in Subscribers :
            \A i \in 1..Len(Stream(s)) : \A j \in 1..Len(Stream(s)) :
               i < j => Stream(s)[i] < Stream(s)[j])

\* C28, amended: the same, with the order of the events of a subscriber
\* that of the calls of Publish as far as the calls did not overlap: an
\* event is ahead of the event of an earlier call only when the later call
\* was made before the earlier one had returned.
C28_ArriveInOrderUnlessOverlapped ==
    /\ []PublishNeverBlocks
    /\ []ClosedAtMostOnce
    /\ FullBufferLosesEvent
    /\ [](\A s \in Subscribers :
            \A i \in 1..Len(Stream(s)) : \A j \in 1..Len(Stream(s)) :
               (i < j /\ Stream(s)[i] > Stream(s)[j]) =>
                  <<Stream(s)[j], Stream(s)[i]>> \in bus.overlapped)

\* two overlapping calls of Publish: the second subscriber has read the
\* later event before the earlier one, the first subscriber, its buffer
\* full, lost an event and then had Unsubscribe called on it twice
C28_Witness ==
    /\ Len(bus.sub[2].received) = 2
    /\ bus.sub[2].received[1] > bus.sub[2].received[2]
    /\ \E e \in 1..bus.calls : <<e, 1>> \in bus.dropped
    /\ Len(bus.chans[1].buf) = ClientChanCap
    /\ bus.sub[1].unsubscribes = 2
    /\ bus.chans[1].closed = 1

\* ------------------------------------------------------------------- C30
\* the media items other than m
OtherItems(m) == (1..NumFiles) \ {m}

\* the tables store and the tables before differ in the candidates of media
\* item m at most (and in the ids given out)
OnlyCandidatesOf(m, before, store) ==
    /\ store.media = before.media
    /\ \A k \in OtherItems(m) :
          CandidatesOf(store.cands, k) = CandidatesOf(before.cands, k)

\* C30: ReplaceSubtitleCandidates for media item m changes only the
\* candidates of m.  While its transaction runs and when the call returns,
\* having succeeded or failed, the candidates of every other media item and
\* all media items are what they were when the call began, and no step of
\* the call changes the settings or the credentials; a call that fails
\* leaves the candidates of m as they were as well.
C30_ReplaceChangesOnlyItsItem ==
    /\ [](\A c \in Callers :
            (tx.ops[c].op = "replace" /\ tx.ops[c].pc = "intx") =>
               OnlyCandidatesOf(tx.ops[c].mediaID, tx.journal, Store))
    /\ [][\A c \in Callers :
            (/\ tx.ops[c].op = "replace"
             /\ tx.ops[c].pc \in {"begin", "intx"}
             /\ tx'.ops[c] # tx.ops[c])
               => /\ settings' = settings
                  /\ creds' = creds
                  /\ tx.ops[c].pc = "begin" =>
                        <<media', cands', candSeq'>> = <<media, cands, candSeq>>
                  /\ tx.ops[c].pc = "intx" =>
                        OnlyCandidatesOf(tx.ops[c].mediaID, tx.journal,
                                         [media |-> media', cands |-> cands',
                                          candSeq |-> candSeq'])
                  /\ (tx'.ops[c].pc = "done" /\ tx'.ops[c].err # "") =>
                        /\ tx.ops[c].pc = "intx" => cands' = tx.journal.cands
                        /\ media' = media]_vars

\* a call for item 2 with candidates has committed while item 1 had
\* candidates of its own: both items have candidates now
C30_Witness ==
    \E c \in Callers :
       /\ tx.ops[c].op = "replace"
       /\ tx.ops[c].pc = "done"
       /\ tx.ops[c].err = ""
       /\ tx.ops[c].mediaID = 2
       /\ tx.ops[c].items # <<>>
       /\ CandidatesOf(cands, 1) # <<>>
       /\ CandidatesOf(cands, 1) = CandidatesOf(tx.initial.cands, 1)
       /\ Len(CandidatesOf(cands, 2)) = Len(tx.ops[c].items)

=============================================================================
